---- MODULE Spec2Model ----
(***************************************************************************)
(* A model of the CTIW compiler (nwinter/ctiw): the line-based parser of   *)
(* src/lib/parser/parser.ts, the lexer of src/lib/parser/lexer.ts and the  *)
(* code generator of src/lib/parser/codegen.ts.                            *)
(*                                                                         *)
(* Source text is modelled by TLA+ strings, which are sequences of         *)
(* characters: Len, SubSeq, Head, Tail and \o act on them as they do on    *)
(* any sequence.  A character is a string of length one.                   *)
(***************************************************************************)
EXTENDS Integers, Sequences, FiniteSets, TLC

VARIABLES
    \* ---- Parser (parser.ts, class Parser) ----
    lines,            \* Parser.lines: the source split at "\n"
    currentLine,      \* Parser.currentLine (0-based)
    errors,           \* Parser.errors
    metadata,         \* Parser.metadata
    nodes,            \* the heap of AST nodes created so far (node id = index)
    body,             \* Parser.body: ids of the top-level children
    containerStack,   \* parseBody's local stack of open containers
    pc,               \* position inside Parser.parse()
    result,           \* the ParseResult returned by parse()
    \* ---- Lexer (lexer.ts, class Lexer) ----
    source,           \* Lexer.source
    pos,              \* Lexer.pos
    line,             \* Lexer.line
    column,           \* Lexer.column
    tokens,           \* Lexer.tokens
    lexErrors,        \* Lexer.errors
    inValueContext,   \* Lexer.inValueContext
    atStatementStart, \* Lexer.atStatementStart
    lpc,              \* position inside Lexer.tokenize()
    returned,         \* what the last finished tokenize() call returned (none: <<>>);
                      \* for a stream or a caller, the log of its calls
    handed,           \* the array a caller holds from its last tokenize() call
    \* ---- Code generator (codegen.ts, generateHTML) ----
    doc,              \* the Document handed to generateHTML
    gpc,              \* position inside generateHTML
    elementCSS,       \* the CSS rules generated from the body nodes
    bodyContent,      \* the pieces generated for the body nodes so far
    html,             \* the returned HTML, as a sequence of pieces
    \* ---- Projects store (projects.ts, class ProjectsStore) ----
    projects,         \* ProjectsStore._projects
    localStorage,     \* the item stored under STORAGE_KEY
    storeCalls,       \* the number of calls made on the store
    lastCall,         \* the last call made on the store
    \* ---- Editor (Editor.svelte) ----
    code,             \* the bound prop code
    editorDoc,        \* editorView.state.doc.toString(), NoEditor before the mount
    hasFocus,         \* editorView.hasFocus
    effectPending,    \* the $effect.pre is scheduled to run
    changes,          \* the number of changes of code made from outside or by typing
    dispatched        \* the number of editorView.dispatch calls of the $effect.pre

parserVars == <<lines, currentLine, errors, metadata, nodes, body, containerStack, pc, result>>
lexerVars == <<source, pos, line, column, tokens, lexErrors, inValueContext, atStatementStart, lpc,
              returned, handed>>
genVars == <<doc, gpc, elementCSS, bodyContent, html>>
storeVars == <<projects, localStorage, storeCalls, lastCall>>
editorVars == <<code, editorDoc, hasFocus, effectPending, changes, dispatched>>
appVars == <<storeVars, editorVars>>
vars == <<parserVars, lexerVars, genVars, appVars>>

(***************************************************************************)
(* Bounds of the model.                                                    *)
(***************************************************************************)
MaxBody == 3
MaxFragments == 4
MaxGenLines == 2
MaxSourceLines == 2
MaxCalls == 4
MaxStoreCalls == 2
MaxChanges == 3

(***************************************************************************)
(* Strings: the JavaScript string operations the code uses.                *)
(***************************************************************************)
Ch(s, i) == SubSeq(s, i, i)

Undefined == "<undefined>"

\* s[i] with a 0-based index; out of range is undefined
CharAt(s, i) == IF 0 <= i /\ i < Len(s) THEN SubSeq(s, i + 1, i + 1) ELSE Undefined

\* s.slice(from, to) and s.slice(from), 0-based, for 0 <= from
Slice(s, from, to) == IF from >= to \/ from >= Len(s) THEN ""
                      ELSE SubSeq(s, from + 1, IF to > Len(s) THEN Len(s) ELSE to)

SliceFrom(s, from) == Slice(s, from, Len(s))

IsSpace(c) == c \in {" ", "\t", "\r", "\n"}

RECURSIVE TrimStart(_)
TrimStart(s) == IF s # "" /\ IsSpace(Head(s)) THEN TrimStart(Tail(s)) ELSE s

RECURSIVE TrimEnd(_)
TrimEnd(s) == IF s # "" /\ IsSpace(Ch(s, Len(s))) THEN TrimEnd(SubSeq(s, 1, Len(s) - 1)) ELSE s

Trim(s) == TrimEnd(TrimStart(s))

StartsWith(s, p) == Len(s) >= Len(p) /\ SubSeq(s, 1, Len(p)) = p

EndsWith(s, p) == Len(s) >= Len(p) /\ SubSeq(s, Len(s) - Len(p) + 1, Len(s)) = p

Includes(s, p) == \E i \in 1..(Len(s) - Len(p) + 1) : SubSeq(s, i, i + Len(p) - 1) = p

\* s.indexOf(c, from) and s.indexOf(c) for a single character c: 0-based, -1 when absent
RECURSIVE IndexFrom(_, _, _)
IndexFrom(s, c, from) == IF from >= Len(s) THEN -1
                         ELSE IF Ch(s, from + 1) = c THEN from
                         ELSE IndexFrom(s, c, from + 1)

IndexOf(s, c) == IndexFrom(s, c, 0)

\* s.split(sep) for a single character sep
RECURSIVE Split(_, _)
Split(s, sep) == LET i == IndexOf(s, sep)
                 IN  IF i = -1 THEN <<s>>
                     ELSE <<Slice(s, 0, i)>> \o Split(SliceFrom(s, i + 1), sep)

\* s.split(sep, 2): at most the first two pieces
SplitLimit2(s, sep) == LET all == Split(s, sep)
                       IN  IF Len(all) <= 2 THEN all ELSE SubSeq(all, 1, 2)

Uppers == "ABCDEFGHIJKLMNOPQRSTUVWXYZ"
Lowers == "abcdefghijklmnopqrstuvwxyz"
Digits == "0123456789"

PosIn(alphabet, c) == IF \E i \in 1..Len(alphabet) : Ch(alphabet, i) = c
                      THEN CHOOSE i \in 1..Len(alphabet) : Ch(alphabet, i) = c
                      ELSE 0

RECURSIVE ToLowerCase(_)
ToLowerCase(s) == IF s = "" THEN ""
                  ELSE LET k == PosIn(Uppers, Head(s))
                       IN  (IF k > 0 THEN Ch(Lowers, k) ELSE Head(s)) \o ToLowerCase(Tail(s))

IsLetter(c) == PosIn(Uppers, c) > 0 \/ PosIn(Lowers, c) > 0
IsDecimal(c) == PosIn(Digits, c) > 0
\* the regular expression class \w
IsWordChar(c) == IsLetter(c) \/ IsDecimal(c) \/ c = "_"

AllChars(s, P(_)) == \A i \in 1..Len(s) : P(Ch(s, i))

\* Number(s) for the strings of the model: "" is 0, a run of decimal digits
\* is its value, anything else is NaN
RECURSIVE DecimalValue(_)
DecimalValue(s) == IF s = "" THEN 0
                   ELSE 10 * DecimalValue(SubSeq(s, 1, Len(s) - 1)) + (PosIn(Digits, Ch(s, Len(s))) - 1)

StrToNumber(s) == LET t == Trim(s)
                  IN  IF AllChars(t, IsDecimal) THEN [nan |-> FALSE, n |-> DecimalValue(t)]
                      ELSE [nan |-> TRUE, n |-> 0]

\* String(n) for a natural number n
RECURSIVE NumberToStr(_)
NumberToStr(n) == IF n < 10 THEN Ch(Digits, n + 1)
                  ELSE NumberToStr(n \div 10) \o Ch(Digits, (n % 10) + 1)

(***************************************************************************)
(* AST (src/lib/parser/ast.ts is not among the sources: modelled from the  *)
(* data model of the specification and from its uses in parser.ts,         *)
(* codegen.ts and the tests).                                              *)
(***************************************************************************)
None == [some |-> FALSE, v |-> ""]
Some(x) == [some |-> TRUE, v |-> x]

ELEMENT_TYPES == {"title", "text", "button", "line", "password", "input", "img", "link", "divide"}

isValidElementType(name) == name \in ELEMENT_TYPES

\* value of a Property node: a string, or a number after coercion
StrValue(s) == [isNum |-> FALSE, n |-> 0, s |-> s]
NumValue(n) == [isNum |-> TRUE, n |-> n, s |-> ""]

NoNode == [type |-> "null", kind |-> "", properties |-> <<>>, content |-> None,
           children |-> <<>>, indent |-> 0, line |-> 0, value |-> StrValue("")]

createElement(elementType, properties, content, indent, lineNumber) ==
    [NoNode EXCEPT !.type = "Element", !.kind = elementType, !.properties = properties,
                   !.content = content, !.indent = indent, !.line = lineNumber]

createSpecial(specialType, lineNumber) ==
    [NoNode EXCEPT !.type = "Special", !.kind = specialType, !.line = lineNumber]

createError(message, lineNumber) ==
    [NoNode EXCEPT !.type = "Error", !.kind = message, !.line = lineNumber]

createProperty(name, value, lineNumber) ==
    [NoNode EXCEPT !.type = "Property", !.kind = name, !.value = value, !.line = lineNumber]

NoMetadata == [title |-> None, language |-> None, fontSize |-> [some |-> FALSE, nan |-> FALSE, n |-> 0]]

createDocument(children, meta, heap, lastLine) ==
    [type |-> "Document", children |-> children, metadata |-> meta, nodes |-> heap, endLine |-> lastLine]

(***************************************************************************)
(* Parser (parser.ts).  The operators take and return the Parser object as *)
(* a record st of its fields.                                              *)
(***************************************************************************)
DOC_PROPERTIES == {"language", "font-size"}
HeaderLiteral == "=CTIW="
FooterLiteral == "==CTIW=="

NewParser(src) ==
    [lines |-> Split(src, "\n"), currentLine |-> 0, errors |-> <<>>, metadata |-> NoMetadata,
     nodes |-> <<>>, body |-> <<>>, containerStack |-> <<>>, pc |-> "header", result |-> <<>>]

\* this.lines[this.currentLine]
LineAt(st) == IF st.currentLine < Len(st.lines) THEN st.lines[st.currentLine + 1] ELSE Undefined

\* a method call on undefined: the TypeError leaves parse()
Thrown(st) == [st EXCEPT !.pc = "threw"]

\* addError numbering the lines from 0
addErrorZeroBased(st, kind, lineNumber) ==
    [st EXCEPT !.errors = Append(@, [kind |-> kind, line |-> lineNumber - 1])]

addError(st, kind, lineNumber) ==
    [st EXCEPT !.errors = Append(@, [kind |-> kind, line |-> lineNumber])]

addErrorHere(st, kind) == addError(st, kind, st.currentLine + 1)

RECURSIVE skipEmptyLines(_)
skipEmptyLines(st) ==
    IF st.currentLine < Len(st.lines) /\ Trim(LineAt(st)) = ""
    THEN skipEmptyLines([st EXCEPT !.currentLine = @ + 1])
    ELSE st

parseHeader(st0) ==
    LET st == skipEmptyLines(st0)
    IN  IF st.currentLine >= Len(st.lines) THEN [st |-> st, ok |-> FALSE]
        ELSE IF LineAt(st) = Undefined THEN [st |-> Thrown(st), ok |-> FALSE]
        ELSE IF Trim(LineAt(st)) = HeaderLiteral
             THEN [st |-> [st EXCEPT !.currentLine = @ + 1], ok |-> TRUE]
             ELSE [st |-> st, ok |-> FALSE]

\* parseFooter without its end-of-input test: it reads the line past the end
parseFooterUnchecked(st0) ==
    LET st == skipEmptyLines(st0)
    IN  IF LineAt(st) = Undefined THEN [st |-> Thrown(st), ok |-> FALSE]
        ELSE IF Trim(LineAt(st)) = FooterLiteral
             THEN [st |-> [st EXCEPT !.currentLine = @ + 1], ok |-> TRUE]
             ELSE [st |-> st, ok |-> FALSE]

parseFooter(st0) ==
    LET st == skipEmptyLines(st0)
    IN  IF st.currentLine >= Len(st.lines) THEN [st |-> st, ok |-> FALSE]
        ELSE IF LineAt(st) = Undefined THEN [st |-> Thrown(st), ok |-> FALSE]
        ELSE IF Trim(LineAt(st)) = FooterLiteral
             THEN [st |-> [st EXCEPT !.currentLine = @ + 1], ok |-> TRUE]
             ELSE [st |-> st, ok |-> FALSE]

DotsPerLevel == 2

RECURSIVE CountDots(_)
CountDots(s) == IF s # "" /\ Head(s) = "." THEN 1 + CountDots(Tail(s)) ELSE 0

parseIndentation(rawLine) ==
    LET spaceTrimmed == TrimStart(rawLine)
        dots == CountDots(spaceTrimmed)
    IN  [indent |-> dots \div DotsPerLevel, content |-> Trim(SliceFrom(spaceTrimmed, dots))]

\* tokenizeElementLine: the space-separated, non-empty, trimmed parts
tokenizeElementLine(s) ==
    LET raw == Split(s, " ")
        keep == SelectSeq(raw, LAMBDA p : Trim(p) # "")
    IN  [i \in 1..Len(keep) |-> Trim(keep[i])]

parseAttribute(part0) ==
    LET part == IF EndsWith(part0, "=") THEN Slice(part0, 0, Len(part0) - 1) ELSE part0
    IN  IF Includes(part, ":")
        THEN LET nv == SplitLimit2(part, ":") IN [name |-> Some(Trim(nv[1])), value |-> Trim(nv[2])]
        ELSE IF Includes(part, "=")
        THEN LET nv == SplitLimit2(part, "=") IN [name |-> Some(Trim(nv[1])), value |-> Trim(nv[2])]
        ELSE [name |-> None, value |-> ""]

\* properties[propName] = propValue on an insertion-ordered object
SetProperty(props, k, v) ==
    IF \E i \in 1..Len(props) : props[i].k = k
    THEN [i \in 1..Len(props) |-> IF props[i].k = k THEN [k |-> k, v |-> v] ELSE props[i]]
    ELSE Append(props, [k |-> k, v |-> v])

RECURSIVE AddAttributes(_, _)
AddAttributes(props, parts) ==
    IF parts = <<>> THEN props
    ELSE LET a == parseAttribute(Head(parts))
         IN  AddAttributes(IF a.name.some /\ a.name.v # "" THEN SetProperty(props, a.name.v, a.value)
                           ELSE props,
                           Tail(parts))

\* lines 395-404: the first "=" that is followed by a space or ends the string, or -1
RECURSIVE ContentEndFrom(_, _)
ContentEndFrom(remaining, i) ==
    IF i >= Len(remaining) THEN -1
    ELSE IF Ch(remaining, i + 1) = "=" /\ (i = Len(remaining) - 1 \/ Ch(remaining, i + 2) = " ") THEN i
    ELSE ContentEndFrom(remaining, i + 1)

ContentEnd(remaining) == ContentEndFrom(remaining, 0)

parseElement(elementType, remaining, lineNumber) ==
    IF remaining = "" THEN createElement(elementType, <<>>, None, 0, lineNumber)
    ELSE IF StartsWith(remaining, " ")
    THEN createElement(elementType, AddAttributes(<<>>, tokenizeElementLine(Trim(remaining))),
                       None, 0, lineNumber)
    ELSE LET contentEnd == ContentEnd(remaining)
         IN  IF contentEnd # -1
             THEN createElement(elementType,
                                AddAttributes(<<>>, tokenizeElementLine(Trim(SliceFrom(remaining, contentEnd + 1)))),
                                Some(Trim(Slice(remaining, 0, contentEnd))), 0, lineNumber)
             ELSE createElement(elementType, <<>>, Some(Trim(remaining)), 0, lineNumber)

\* the value up to the closing "=", or the whole rest
ValueOf(remaining) ==
    LET valueEnd == IndexOf(remaining, "=")
    IN  IF valueEnd # -1 THEN Trim(Slice(remaining, 0, valueEnd)) ELSE Trim(remaining)

parseDocProperty(name, remaining, lineNumber) ==
    LET value == ValueOf(remaining)
        numVal == StrToNumber(value)
    IN  createProperty(name, IF ~numVal.nan /\ value # "" THEN NumValue(numVal.n) ELSE StrValue(value),
                       lineNumber)

\* /^=\((\w+)\)=$/
SpecialMatch(s) ==
    IF Len(s) >= 5 /\ StartsWith(s, "=(") /\ EndsWith(s, ")=") /\ AllChars(Slice(s, 2, Len(s) - 2), IsWordChar)
    THEN Some(Slice(s, 2, Len(s) - 2))
    ELSE None

parseSpecialElement(st, s, lineNumber) ==
    LET m == SpecialMatch(s)
    IN  IF m.some /\ ToLowerCase(m.v) = "time"
        THEN [st |-> st, parsed |-> createSpecial("time", lineNumber)]
        ELSE [st |-> addError(st, "UnknownSpecialKind", lineNumber), parsed |-> NoNode]

\* !this.metadata.title: unset or the empty string
TitleUnset(meta) == ~meta.title.some \/ meta.title.v = ""

parsePropertyOrElement(st, s, lineNumber) ==
    LET rest == SliceFrom(s, 1)
        nameEnd == IndexOf(rest, "=")
    IN  IF nameEnd = -1
        THEN [st |-> addError(st, "ExpectedEquals", lineNumber), parsed |-> NoNode]
        ELSE LET name == ToLowerCase(Trim(Slice(rest, 0, nameEnd)))
                 remaining == SliceFrom(rest, nameEnd + 1)
             IN  IF name \in DOC_PROPERTIES
                 THEN [st |-> st, parsed |-> parseDocProperty(name, remaining, lineNumber)]
                 ELSE IF name = "title"
                 THEN [st |-> IF TitleUnset(st.metadata)
                              THEN [st EXCEPT !.metadata.title = Some(ValueOf(remaining))]
                              ELSE st,
                       parsed |-> parseElement("title", remaining, lineNumber)]
                 ELSE IF isValidElementType(name)
                 THEN [st |-> st, parsed |-> parseElement(name, remaining, lineNumber)]
                 ELSE [st |-> addError(st, "UnknownElementKind", lineNumber), parsed |-> NoNode]

parseStatement(st, s, lineNumber) ==
    IF ~StartsWith(s, "=")
    THEN [st |-> addError(st, "UnknownStatement", lineNumber), parsed |-> NoNode]
    ELSE IF StartsWith(s, "=(") /\ Includes(s, ")=")
    THEN parseSpecialElement(st, s, lineNumber)
    ELSE parsePropertyOrElement(st, s, lineNumber)

\* popNonContainers closing by dedent: it pops containers as well
RECURSIVE popByDedent(_, _, _)
popByDedent(stack, heap, indent) ==
    IF Len(stack) > 0 /\ stack[Len(stack)].indent >= indent
    THEN popByDedent(SubSeq(stack, 1, Len(stack) - 1), heap, indent)
    ELSE stack

\* lines 176-187: frames that are not containers are dropped on a dedent
RECURSIVE popNonContainers(_, _, _)
popNonContainers(stack, heap, indent) ==
    IF Len(stack) > 0 /\ stack[Len(stack)].indent >= indent
       /\ heap[stack[Len(stack)].element].kind # "divide"
    THEN popNonContainers(SubSeq(stack, 1, Len(stack) - 1), heap, indent)
    ELSE stack

\* closeContainer closing every open container
closeContainerAll(st) ==
    [st EXCEPT !.containerStack = <<>>, !.currentLine = @ + 1]

\* lines 164-169: a bare =divide= while a container is open closes the innermost one
closeContainer(st) ==
    [st EXCEPT !.containerStack = SubSeq(@, 1, Len(@) - 1), !.currentLine = @ + 1]

\* lines 189-198: a document-level property goes into the metadata
storeProperty(st, prop) ==
    IF prop.kind = "language"
    THEN [st EXCEPT !.metadata.language =
              Some(IF prop.value.isNum THEN NumberToStr(prop.value.n) ELSE prop.value.s)]
    ELSE IF prop.kind = "font-size"
    THEN [st EXCEPT !.metadata.fontSize =
              IF prop.value.isNum THEN [some |-> TRUE, nan |-> FALSE, n |-> prop.value.n]
              ELSE [some |-> TRUE, nan |-> StrToNumber(prop.value.s).nan, n |-> StrToNumber(prop.value.s).n]]
    ELSE IF prop.kind = "title"
    THEN [st EXCEPT !.metadata.title =
              Some(IF prop.value.isNum THEN NumberToStr(prop.value.n) ELSE prop.value.s)]
    ELSE st

\* HasParent whatever the indentation
HasParentAnyIndent(stack, indent) == Len(stack) > 0

\* HasParent asking for a second level of indentation
HasParentDeeper(stack, indent) == Len(stack) > 0 /\ indent > 1

\* lines 201-206: the parent of a new node
HasParent(stack, indent) == Len(stack) > 0 /\ indent > 0

\* attachNode opening every Element, container or not
attachNodeOpeningAll(st, parsed, indent) ==
    LET id == Len(st.nodes) + 1
        created == [st EXCEPT !.nodes = Append(@, parsed)]
        placed == IF HasParent(st.containerStack, indent)
                  THEN [created EXCEPT
                            !.nodes[st.containerStack[Len(st.containerStack)].element].children = Append(@, id)]
                  ELSE [created EXCEPT !.body = Append(@, id)]
    IN  IF parsed.type = "Element"
        THEN [placed EXCEPT !.containerStack = Append(@, [element |-> id, indent |-> indent])]
        ELSE placed

\* lines 199-212: add the node to its parent, and open it if it is a container
attachNode(st, parsed, indent) ==
    LET id == Len(st.nodes) + 1
        created == [st EXCEPT !.nodes = Append(@, parsed)]
        placed == IF HasParent(st.containerStack, indent)
                  THEN [created EXCEPT
                            !.nodes[st.containerStack[Len(st.containerStack)].element].children = Append(@, id)]
                  ELSE [created EXCEPT !.body = Append(@, id)]
    IN  IF parsed.type = "Element" /\ parsed.kind = "divide"
        THEN [placed EXCEPT !.containerStack = Append(@, [element |-> id, indent |-> indent])]
        ELSE placed

\* lines 174-213: what becomes of a parsed statement
placeStatement(st, parsed, indent) ==
    IF parsed.type = "null" THEN st
    ELSE IF parsed.type = "Property"
    THEN storeProperty([st EXCEPT !.containerStack = popNonContainers(@, st.nodes, indent)], parsed)
    ELSE IF parsed.type \in {"Element", "Special"}
    THEN attachNode([st EXCEPT !.containerStack = popNonContainers(@, st.nodes, indent)], parsed, indent)
    ELSE [st EXCEPT !.containerStack = popNonContainers(@, st.nodes, indent)]

\* parseStatementLine staying on its line
parseStatementLineStaying(st, indent, content) ==
    LET r == parseStatement(st, content, st.currentLine + 1)
    IN  placeStatement(r.st, r.parsed, indent)

\* lines 171-215: a statement line
parseStatementLine(st, indent, content) ==
    LET r == parseStatement(st, content, st.currentLine + 1)
    IN  [placeStatement(r.st, r.parsed, indent) EXCEPT !.currentLine = @ + 1]

\* lines 144-216: one iteration of parseBody's loop
parseBodyLine(st) ==
    IF st.currentLine >= Len(st.lines) THEN [st EXCEPT !.pc = "footer"]
    ELSE IF LineAt(st) = Undefined THEN Thrown(st)
    ELSE LET rawLine == LineAt(st)
             trimmedLine == Trim(rawLine)
             ind == parseIndentation(rawLine)
         IN  IF trimmedLine = FooterLiteral THEN [st EXCEPT !.pc = "footer"]
             ELSE IF trimmedLine = "" THEN [st EXCEPT !.currentLine = @ + 1]
             ELSE IF ind.content = "=divide=" /\ Len(st.containerStack) > 0 THEN closeContainer(st)
             ELSE parseStatementLine(st, ind.indent, ind.content)

\* parseHeaderStep consuming the line it found in place of the header
parseHeaderStepSkipping(st) ==
    LET r == parseHeader(st)
    IN  IF r.st.pc = "threw" THEN r.st
        ELSE [(IF r.ok THEN r.st
               ELSE [addErrorHere(r.st, "MissingHeader") EXCEPT !.currentLine = @ + 1]) EXCEPT !.pc = "body"]

\* lines 73-77
parseHeaderStep(st) ==
    LET r == parseHeader(st)
    IN  IF r.st.pc = "threw" THEN r.st
        ELSE [(IF r.ok THEN r.st ELSE addErrorHere(r.st, "MissingHeader")) EXCEPT !.pc = "body"]

\* lines 82-97
parseFooterStep(st) ==
    LET r == parseFooter(st)
        fin == IF r.ok THEN r.st ELSE addErrorHere(r.st, "MissingFooter")
    IN  IF r.st.pc = "threw" THEN r.st
        ELSE [fin EXCEPT !.pc = "done",
                         !.result = <<[document |-> createDocument(fin.body, fin.metadata, fin.nodes, Len(fin.lines)),
                                       errors |-> fin.errors]>>]

parseStep(st) ==
    IF st.pc = "header" THEN parseHeaderStep(st)
    ELSE IF st.pc = "body" THEN parseBodyLine(st)
    ELSE IF st.pc = "footer" THEN parseFooterStep(st)
    ELSE st

RECURSIVE runParser(_)
runParser(st) == IF st.pc \in {"done", "threw"} THEN st ELSE runParser(parseStep(st))

\* parse(source), lines 50-53
parse(src) == runParser(NewParser(src))

(***************************************************************************)
(* Lexer (lexer.ts).  The operators take and return the Lexer object as a  *)
(* record L of its fields.                                                 *)
(***************************************************************************)
Nul == "NUL"
MarkerLiteral == "==CTIW=="

NewLexer(src) ==
    [source |-> src, pos |-> 0, line |-> 1, column |-> 1, tokens |-> <<>>, errors |-> <<>>,
     inValueContext |-> FALSE, atStatementStart |-> TRUE]

isAtEndInternal(L) == L.pos >= Len(L.source)

\* this.source[i] || '\0'
SourceAt(L, i) == IF 0 <= i /\ i < Len(L.source) THEN CharAt(L.source, i) ELSE Nul

current(L) == SourceAt(L, L.pos)

lookAhead(L, n) == SourceAt(L, L.pos + n)

advance(L) == [L EXCEPT !.pos = @ + 1, !.column = @ + 1]

RECURSIVE consume(_, _)
consume(L, n) == IF n = 0 THEN L ELSE consume(advance(L), n - 1)

match(L, expected) ==
    /\ L.pos + Len(expected) <= Len(L.source)
    /\ SubSeq(L.source, L.pos + 1, L.pos + Len(expected)) = expected

addToken(L, type, value, startColumn) ==
    [L EXCEPT !.tokens = Append(@, [type |-> type, value |-> value, line |-> L.line, column |-> startColumn])]

lexAddError(L, char) ==
    [L EXCEPT !.errors = Append(@, [char |-> char, line |-> L.line, column |-> L.column])]

RECURSIVE skipWhitespace(_)
skipWhitespace(L) ==
    IF isAtEndInternal(L) THEN L
    ELSE IF current(L) \in {" ", "\t"} THEN skipWhitespace(advance(L))
    ELSE IF current(L) = "\r" /\ lookAhead(L, 1) = "\n" THEN skipWhitespace(advance(L))
    ELSE L

isAlpha(c) == IsLetter(c)
isDigit(c) == IsDecimal(c)
isHexDigit(c) == isDigit(c) \/ c \in {"a", "b", "c", "d", "e", "f", "A", "B", "C", "D", "E", "F"}
isAlphaNumericOrHyphen(c) == isAlpha(c) \/ isDigit(c) \/ c = "-" \/ c = "_"

isValidHexColor(s) == Len(s) = 6 /\ AllChars(s, isHexDigit)

SetContext(L, inValue, atStart) == [L EXCEPT !.inValueContext = inValue, !.atStatementStart = atStart]

\* lines 366-408, called with the closing EQUALS already added
updateValueContext(L) ==
    IF /\ Len(L.tokens) >= 3
       /\ L.tokens[Len(L.tokens)].type = "EQUALS"
       /\ L.tokens[Len(L.tokens) - 1].type = "IDENTIFIER"
       /\ L.tokens[Len(L.tokens) - 2].type = "EQUALS"
       /\ \/ Len(L.tokens) = 3
          \/ L.tokens[Len(L.tokens) - 3].type \in {"NEWLINE", "DOT", "CTIW_START"}
    THEN SetContext(L, TRUE, FALSE)
    ELSE SetContext(L, FALSE, FALSE)

\* the end of the run of identifier characters that starts at i
RECURSIVE IdentifierEnd(_, _)
IdentifierEnd(src, i) ==
    IF i < Len(src) /\ isAlphaNumericOrHyphen(CharAt(src, i)) THEN IdentifierEnd(src, i + 1) ELSE i

\* the first position from i on that holds neither a space nor a tab
RECURSIVE SkipBlanks(_, _)
SkipBlanks(src, i) ==
    IF i < Len(src) /\ CharAt(src, i) \in {" ", "\t"} THEN SkipBlanks(src, i + 1) ELSE i

\* lines 481-501: is there content after the "=" at i, before the next "=" or line end
ContentAfterEquals(src, i) ==
    LET j == SkipBlanks(src, i + 1)
    IN  ~(j >= Len(src) \/ CharAt(src, j) = "=" \/ CharAt(src, j) = "\n")

\* lines 464-505
LooksLikeAttributeAt(src, start) ==
    LET i == IdentifierEnd(src, start)
    IN  IF i >= Len(src) THEN FALSE
        ELSE IF CharAt(src, i) = ":" THEN TRUE
        ELSE IF CharAt(src, i) = "=" THEN ContentAfterEquals(src, i)
        ELSE FALSE

looksLikeAttribute(L) == LooksLikeAttributeAt(L.source, L.pos)

\* lines 441-453: is there a "=" before the end of the line
RECURSIVE ClosingOnLine(_, _)
ClosingOnLine(src, i) ==
    IF i >= Len(src) THEN FALSE
    ELSE IF CharAt(src, i) = "=" THEN TRUE
    ELSE IF CharAt(src, i) = "\n" THEN FALSE
    ELSE ClosingOnLine(src, i + 1)

\* lines 416-454
shouldScanString(L) ==
    IF ~L.inValueContext THEN FALSE
    ELSE IF current(L) = "=" THEN FALSE
    ELSE IF current(L) = "\n" THEN FALSE
    ELSE IF isAlpha(current(L)) THEN ~looksLikeAttribute(L)
    ELSE ClosingOnLine(L.source, L.pos)

\* lines 527-567: at a blank inside a value, does a real attribute start after it
AttributeAfterBlank(src, p) ==
    LET j == SkipBlanks(src, p + 1)
    IN  /\ j < Len(src)
        /\ isAlpha(CharAt(src, j))
        /\ LooksLikeAttributeAt(src, j)

\* lines 518-570: the characters of the value, and the lexer after them
RECURSIVE scanStringLoop(_, _)
scanStringLoop(L, value) ==
    IF isAtEndInternal(L) \/ current(L) = "\n" THEN [L |-> L, value |-> value]
    ELSE IF current(L) = "=" THEN [L |-> L, value |-> value]
    ELSE IF current(L) \in {" ", "\t"} /\ AttributeAfterBlank(L.source, L.pos) THEN [L |-> L, value |-> value]
    ELSE scanStringLoop(advance(L), value \o current(L))

\* finishString without the trim
finishStringUntrimmed(r, startColumn) ==
    [(IF Len(r.value) > 0 THEN addToken(r.L, "STRING", r.value, startColumn) ELSE r.L)
        EXCEPT !.inValueContext = FALSE]

\* lines 572-580
finishString(r, startColumn) ==
    [(IF Len(Trim(r.value)) > 0 THEN addToken(r.L, "STRING", Trim(r.value), startColumn) ELSE r.L)
        EXCEPT !.inValueContext = FALSE]

scanString(L, startColumn) == finishString(scanStringLoop(L, ""), startColumn)

\* lines 588-590: the run of identifier characters at the current position
RECURSIVE scanIdentifierRun(_, _)
scanIdentifierRun(L, value) ==
    IF ~isAtEndInternal(L) /\ isAlphaNumericOrHyphen(current(L))
    THEN scanIdentifierRun(advance(L), value \o current(L))
    ELSE [L |-> L, value |-> value]

\* lines 609-611: the run of hexadecimal digits at the current position
RECURSIVE scanHexRun(_, _)
scanHexRun(L, value) ==
    IF ~isAtEndInternal(L) /\ isHexDigit(current(L))
    THEN scanHexRun(advance(L), value \o current(L))
    ELSE [L |-> L, value |-> value]

\* lines 592-599 and 613-620
finishWord(r, otherType, startColumn) ==
    [addToken(r.L, IF Len(r.value) = 6 /\ isValidHexColor(r.value) THEN "HEX_COLOR" ELSE otherType,
              r.value, startColumn)
        EXCEPT !.inValueContext = FALSE]

scanIdentifierOrHexColor(L, startColumn) ==
    finishWord(scanIdentifierRun(L, ""), "IDENTIFIER", startColumn)

scanNumberOrHexColor(L, startColumn) ==
    finishWord(scanHexRun(L, ""), "NUMBER", startColumn)

\* unknownCharacter reporting after it has advanced
unknownCharacterLate(L) == lexAddError(advance(L), current(L))

\* lines 352-354: an unknown character is reported and skipped
unknownCharacter(L) == advance(lexAddError(L, current(L)))

SingleCharTokens == {"=", ":", ".", "(", ")", "\n"}

\* lines 287-333
singleCharToken(L, char, startColumn) ==
    IF char = "=" THEN updateValueContext(addToken(advance(L), "EQUALS", "=", startColumn))
    ELSE IF char = ":" THEN SetContext(addToken(advance(L), "COLON", ":", startColumn), FALSE, FALSE)
    ELSE IF char = "." THEN [addToken(advance(L), "DOT", ".", startColumn) EXCEPT !.inValueContext = FALSE]
    ELSE IF char = "(" THEN SetContext(addToken(advance(L), "LPAREN", "(", startColumn), FALSE, FALSE)
    ELSE IF char = ")" THEN SetContext(addToken(advance(L), "RPAREN", ")", startColumn), FALSE, FALSE)
    ELSE [SetContext(addToken(advance(L), "NEWLINE", "\n", startColumn), FALSE, TRUE)
             EXCEPT !.line = @ + 1, !.column = 1]

\* HasStart looking at the last token only
HasStartLast(toks) == toks # <<>> /\ toks[Len(toks)].type = "CTIW_START"

HasStart(toks) == \E i \in 1..Len(toks) : toks[i].type = "CTIW_START"

\* lines 263-355: scanToken after its skipWhitespace
scanTokenAt(L, startColumn) ==
    IF match(L, MarkerLiteral)
    THEN SetContext(addToken(consume(L, Len(MarkerLiteral)),
                             IF HasStart(L.tokens) THEN "CTIW_END" ELSE "CTIW_START",
                             MarkerLiteral, startColumn),
                    FALSE, FALSE)
    ELSE IF match(L, "==") /\ ~match(L, MarkerLiteral)
    THEN SetContext(addToken(consume(L, 2), "DOUBLE_EQUALS", "==", startColumn), FALSE, FALSE)
    ELSE IF current(L) \in SingleCharTokens THEN singleCharToken(L, current(L), startColumn)
    ELSE IF shouldScanString(L) THEN scanString(L, startColumn)
    ELSE IF isAlpha(current(L)) THEN scanIdentifierOrHexColor(L, startColumn)
    ELSE IF isDigit(current(L)) THEN scanNumberOrHexColor(L, startColumn)
    ELSE unknownCharacter(L)

\* lines 256-261
afterWhitespace(L) == IF isAtEndInternal(L) THEN L ELSE scanTokenAt(L, L.column)

scanToken(L) == afterWhitespace(skipWhitespace(L))

\* tokenize() keeping the tokens of the call before
resetLexerKeepingTokens(L) == [NewLexer(L.source) EXCEPT !.tokens = L.tokens]

\* lines 88-94: tokenize() starts from fresh scanner state
resetLexer(L) == NewLexer(L.source)

\* lines 100-107
pushEOF(L) == addToken(L, "EOF", "", L.column)

RECURSIVE scanAll(_)
scanAll(L) == IF isAtEndInternal(L) THEN L ELSE scanAll(scanToken(L))

\* tokenize(source), lines 667-671
tokenize(src) == pushEOF(scanAll(resetLexer(NewLexer(src))))

\* lines 87-108: the method tokenize() as one call
tokenizeAll(L) == pushEOF(scanAll(resetLexer(L)))

\* lines 114-116 and 128-130: tokenize first when no tokens are held
ensureTokens(L) == IF Len(L.tokens) = 0 THEN tokenizeAll(L) ELSE L

\* a Token or null, as a sequence of at most one token
NoToken == <<>>

\* lines 113-123: this.tokens.shift() || null
nextToken(L) ==
    IF Len(ensureTokens(L).tokens) = 0 THEN [L |-> ensureTokens(L), value |-> NoToken]
    ELSE [L |-> [ensureTokens(L) EXCEPT !.tokens = Tail(@)], value |-> <<Head(ensureTokens(L).tokens)>>]

\* peek taking the token it returns
peekConsuming(L) == nextToken(L)

\* lines 139-147
isAtEnd(L) ==
    [L |-> ensureTokens(L),
     value |-> \/ Len(ensureTokens(L).tokens) = 0
               \/ (Len(ensureTokens(L).tokens) = 1 /\ ensureTokens(L).tokens[1].type = "EOF")]

\* The array returned by tokenize() is this.tokens itself.  A caller's
\* reference: the array's content when it was returned, its content now, and
\* whether it still is this.tokens.
NoArray == [held |-> FALSE, shared |-> FALSE, original |-> <<>>, now |-> <<>>]

\* line 107: return this.tokens
handOver(L) == [held |-> TRUE, shared |-> TRUE, original |-> L.tokens, now |-> L.tokens]

\* The caller's array after a call that took the Lexer from L to Lnew: line 89
\* installs a new array when the call tokenized (no tokens were held), and
\* line 122 shifts this.tokens in place otherwise.
afterCall(h, L, Lnew) ==
    IF ~h.shared THEN h
    ELSE IF Len(L.tokens) = 0 THEN [h EXCEPT !.shared = FALSE]
    ELSE [h EXCEPT !.now = Lnew.tokens]

\* lines 127-134: this.tokens[0] || null
peek(L) ==
    [L |-> ensureTokens(L),
     value |-> IF Len(ensureTokens(L).tokens) = 0 THEN NoToken ELSE <<ensureTokens(L).tokens[1]>>]

(***************************************************************************)
(* Code generator (codegen.ts).  The generated text is a sequence of       *)
(* pieces: the literal text of the templates, and the values interpolated  *)
(* into them, each with the string of the AST it was computed from (raw)   *)
(* and the text emitted for it.  The HTML string is the concatenation of   *)
(* the texts.                                                              *)
(***************************************************************************)
Lit(s) == [role |-> "lit", raw |-> "", text |-> s]
Interpolated(role, raw, text) == [role |-> role, raw |-> raw, text |-> text]

RECURSIVE Render(_)
Render(pieces) == IF pieces = <<>> THEN "" ELSE Head(pieces).text \o Render(Tail(pieces))

\* parts.join(sep) on sequences of pieces
RECURSIVE JoinPieces(_, _)
JoinPieces(parts, sep) ==
    IF parts = <<>> THEN <<>>
    ELSE IF Len(parts) = 1 THEN parts[1]
    ELSE parts[1] \o <<Lit(sep)>> \o JoinPieces(Tail(parts), sep)

\* props[key], an absent key being undefined
GetProp(props, key) ==
    IF \E i \in 1..Len(props) : props[i].k = key
    THEN Some(props[CHOOSE i \in 1..Len(props) : props[i].k = key].v)
    ELSE None

\* JavaScript truthiness of an optional string
Truthy(opt) == opt.some /\ opt.v # ""

CSS_PROPERTY_MAP ==
    ("color" :> "background-color" @@ "in" :> "text-align" @@ "size" :> "width") @@
    [k \in {"background", "background-color", "border", "border-radius", "font-size", "font-family",
            "font-weight", "text-align", "width", "height", "margin", "margin-top", "margin-bottom",
            "margin-left", "margin-right", "padding", "padding-top", "padding-bottom", "padding-left",
            "padding-right", "display", "flex", "flex-direction", "justify-content", "align-items",
            "gap", "grid", "position", "top", "left", "right", "bottom", "z-index", "opacity",
            "transform", "transition", "cursor", "overflow", "box-shadow", "text-decoration",
            "line-height", "letter-spacing", "max-width", "min-width", "max-height", "min-height"} |-> k]

HTML_ATTRIBUTES ==
    {"id", "class", "href", "src", "alt", "title", "type", "name", "value",
     "placeholder", "disabled", "readonly", "checked", "selected",
     "target", "rel", "download", "data", "role", "aria-label",
     "width", "height",
     "autoplay", "controls", "loop", "muted", "poster",
     "action", "method", "enctype",
     "colspan", "rowspan", "scope",
     "min", "max", "step", "pattern", "required", "maxlength", "minlength",
     "for", "tabindex", "autofocus", "autocomplete"}

SELF_CLOSING_ELEMENTS ==
    {"area", "base", "br", "col", "embed", "hr", "img", "input",
     "link", "meta", "param", "source", "track", "wbr"}

ELEMENT_TAG_MAP ==
    [title |-> "h1", text |-> "p", divide |-> "div", line |-> "br", heading |-> "h2", subheading |-> "h3"]

LANGUAGE_MAP ==
    [english |-> "en", spanish |-> "es", french |-> "fr", german |-> "de", chinese |-> "zh",
     japanese |-> "ja", korean |-> "ko", portuguese |-> "pt", italian |-> "it", russian |-> "ru"]

\* text.replace(/c/g, rep) for a single character c
RECURSIVE ReplaceAll(_, _, _)
ReplaceAll(s, c, rep) ==
    IF s = "" THEN ""
    ELSE (IF SubSeq(s, 1, 1) = c THEN rep ELSE SubSeq(s, 1, 1)) \o ReplaceAll(Tail(s), c, rep)

\* escapeHTML replacing the ampersand last
escapeHTMLAmpersandLast(text) ==
    ReplaceAll(ReplaceAll(ReplaceAll(ReplaceAll(ReplaceAll(text, "<", "&lt;"), ">", "&gt;"),
                                     "\"", "&quot;"), "'", "&#39;"), "&", "&amp;")

escapeHTML(text) ==
    ReplaceAll(ReplaceAll(ReplaceAll(ReplaceAll(ReplaceAll(text, "&", "&amp;"), "<", "&lt;"), ">", "&gt;"),
                          "\"", "&quot;"), "'", "&#39;")

isHexColor(value) == Len(value) = 6 /\ AllChars(value, isHexDigit)

PixelProps ==
    {"font-size", "width", "height", "margin", "padding", "gap",
     "top", "left", "right", "bottom", "border-radius", "size",
     "margin-top", "margin-bottom", "margin-left", "margin-right",
     "padding-top", "padding-bottom", "padding-left", "padding-right",
     "max-width", "min-width", "max-height", "min-height"}

formatCSSValue(propName, strValue) ==
    IF (Includes(propName, "color") \/ propName = "background") /\ isHexColor(strValue)
    THEN "#" \o strValue
    ELSE IF propName \in PixelProps /\ strValue # "" /\ AllChars(strValue, IsDecimal)
    THEN strValue \o "px"
    ELSE strValue

\* /^[a-z][a-z0-9-]*$/i
IsCssNameChar(c) == IsLetter(c) \/ IsDecimal(c) \/ c = "-"
ValidCssName(s) == s # "" /\ IsLetter(Ch(s, 1)) /\ AllChars(s, IsCssNameChar)

CssPropertyOf(key) == IF key \in DOMAIN CSS_PROPERTY_MAP THEN CSS_PROPERTY_MAP[key] ELSE key

\* lines 186-219: the declaration pushed for one property, if any
styleDeclaration(key, value) ==
    IF key = "color" /\ isHexColor(value)
    THEN <<Lit("background-color: #"), Interpolated("style", value, value)>>
    ELSE IF key = "outline"
    THEN IF value = "visible" THEN <<Lit("border: 1px solid black")>>
         ELSE IF value = "invisible" THEN <<Lit("border: none")>>
         ELSE <<>>
    ELSE IF key = "in"
    THEN IF value \in {"middle", "center"} THEN <<Lit("text-align: center")>>
         ELSE IF value = "left" THEN <<Lit("text-align: left")>>
         ELSE IF value = "right" THEN <<Lit("text-align: right")>>
         ELSE <<>>
    ELSE IF ValidCssName(CssPropertyOf(key))
    THEN <<Interpolated("property", key, CssPropertyOf(key)), Lit(": "),
           Interpolated("style", value, formatCSSValue(key, value))>>
    ELSE <<>>

\* the styles array built by the loop over the properties
RECURSIVE styleList(_)
styleList(props) ==
    IF props = <<>> THEN <<>>
    ELSE IF Head(props).k \in HTML_ATTRIBUTES THEN styleList(Tail(props))
    ELSE IF styleDeclaration(Head(props).k, Head(props).v) = <<>> THEN styleList(Tail(props))
    ELSE <<styleDeclaration(Head(props).k, Head(props).v)>> \o styleList(Tail(props))

generateElementCSS(element) ==
    IF ~Truthy(GetProp(element.properties, "id")) THEN <<>>
    ELSE IF styleList(element.properties) = <<>> THEN <<>>
    ELSE <<Lit("#"), Interpolated("selector", GetProp(element.properties, "id").v,
                                  GetProp(element.properties, "id").v), Lit(" { ")>>
         \o JoinPieces(styleList(element.properties), "; ") \o <<Lit("; }")>>

\* processNode of generateCSS: the rules of a node and of its descendants, in document order
RECURSIVE cssRulesOf(_, _)
RECURSIVE cssRulesOfAll(_, _)
cssRulesOf(heap, id) ==
    IF heap[id].type # "Element" THEN <<>>
    ELSE (IF generateElementCSS(heap[id]) = <<>> THEN <<>> ELSE <<generateElementCSS(heap[id])>>)
         \o cssRulesOfAll(heap, heap[id].children)

cssRulesOfAll(heap, ids) ==
    IF ids = <<>> THEN <<>> ELSE cssRulesOf(heap, Head(ids)) \o cssRulesOfAll(heap, Tail(ids))

generateCSS(heap, ids) == JoinPieces(cssRulesOfAll(heap, ids), "\n    ")

RECURSIVE attributeList(_)
attributeList(props) ==
    IF props = <<>> THEN <<>>
    ELSE IF Head(props).k \in HTML_ATTRIBUTES
    THEN <<<<Lit(Head(props).k \o "=\""),
             Interpolated("attribute", Head(props).v, escapeHTML(Head(props).v)), Lit("\"")>>>>
         \o attributeList(Tail(props))
    ELSE attributeList(Tail(props))

generateAttributes(props) ==
    IF attributeList(props) = <<>> THEN <<>> ELSE <<Lit(" ")>> \o JoinPieces(attributeList(props), " ")

\* the inline declaration that passes an alignment through unmapped
inlineStyleDeclarationUnaligned(key, value) ==
    IF key = "in"
    THEN <<Interpolated("property", key, CssPropertyOf(key)), Lit(": "),
           Interpolated("style", value, formatCSSValue(key, value))>>
    ELSE styleDeclaration(key, value)

\* lines 281-314: the declaration pushed for one property, if any
inlineStyleDeclaration(key, value) ==
    IF key = "color" /\ isHexColor(value)
    THEN <<Lit("background-color: #"), Interpolated("style", value, value)>>
    ELSE IF key = "outline"
    THEN IF value = "visible" THEN <<Lit("border: 1px solid black")>>
         ELSE IF value = "invisible" THEN <<Lit("border: none")>>
         ELSE <<>>
    ELSE IF key = "in"
    THEN IF value \in {"middle", "center"} THEN <<Lit("text-align: center")>>
         ELSE IF value = "left" THEN <<Lit("text-align: left")>>
         ELSE IF value = "right" THEN <<Lit("text-align: right")>>
         ELSE <<>>
    ELSE IF ValidCssName(CssPropertyOf(key))
    THEN <<Interpolated("property", key, CssPropertyOf(key)), Lit(": "),
           Interpolated("style", value, formatCSSValue(key, value))>>
    ELSE <<>>

\* lines 275-315: the styles array built by the loop over the properties
RECURSIVE inlineStyleList(_)
inlineStyleList(props) ==
    IF props = <<>> THEN <<>>
    ELSE IF Head(props).k \in HTML_ATTRIBUTES THEN inlineStyleList(Tail(props))
    ELSE IF inlineStyleDeclaration(Head(props).k, Head(props).v) = <<>> THEN inlineStyleList(Tail(props))
    ELSE <<inlineStyleDeclaration(Head(props).k, Head(props).v)>> \o inlineStyleList(Tail(props))

generateInlineStyles(props) ==
    IF inlineStyleList(props) = <<>> THEN <<>>
    ELSE <<Lit(" style=\"")>> \o JoinPieces(inlineStyleList(props), "; ") \o <<Lit("\"")>>

generateSpecialElement(node) ==
    IF node.kind = "time" THEN <<Lit("<span class=\"ctiw-time\"></span>")>>
    ELSE <<Lit("<!-- Unknown special: "), Interpolated("comment", node.kind, node.kind), Lit(" -->")>>

\* lines 354, 360, 367, 373: the id attribute of the special-cased elements
idAttr(props) ==
    IF Truthy(GetProp(props, "id"))
    THEN <<Lit(" id=\""), Interpolated("id", GetProp(props, "id").v, GetProp(props, "id").v), Lit("\"")>>
    ELSE <<>>

\* line 346
inlineStylesOf(props) == IF ~Truthy(GetProp(props, "id")) THEN generateInlineStyles(props) ELSE <<>>

\* line 347 with lines 374 and 399: the text node of an element
textNode(element) ==
    IF Truthy(element.content)
    THEN <<Interpolated("text", element.content.v, escapeHTML(element.content.v))>>
    ELSE <<>>

\* lines 353 and 359
placeholderAttr(element) ==
    IF Truthy(element.content)
    THEN <<Lit(" placeholder=\""),
           Interpolated("attribute", element.content.v, escapeHTML(element.content.v)), Lit("\"")>>
    ELSE <<>>

\* lines 365-368: src is the escaped content, or the src property, escaped (again)
imgSrc(element) ==
    IF Truthy(element.content)
    THEN Interpolated("attribute", element.content.v, escapeHTML(escapeHTML(element.content.v)))
    ELSE IF Truthy(GetProp(element.properties, "src"))
    THEN Interpolated("attribute", GetProp(element.properties, "src").v,
                      escapeHTML(GetProp(element.properties, "src").v))
    ELSE Lit("")

imgAlt(element) ==
    IF Truthy(GetProp(element.properties, "alt"))
    THEN Interpolated("attribute", GetProp(element.properties, "alt").v,
                      escapeHTML(GetProp(element.properties, "alt").v))
    ELSE Lit("")

\* line 372
linkHref(element) ==
    IF Truthy(GetProp(element.properties, "href"))
    THEN Interpolated("attribute", GetProp(element.properties, "href").v,
                      escapeHTML(GetProp(element.properties, "href").v))
    ELSE Lit("#")

\* line 379
tagOf(elementType) ==
    IF elementType \in DOMAIN ELEMENT_TAG_MAP THEN ELEMENT_TAG_MAP[elementType] ELSE elementType

\* lines 383, 395, 399: the opening tag
openTag(element) ==
    <<Lit("<" \o tagOf(element.kind))>> \o generateAttributes(element.properties)
        \o inlineStylesOf(element.properties) \o <<Lit(">")>>

\* lines 387-389
validChildren(heap, element) == SelectSeq(element.children, LAMBDA c : heap[c].type \in {"Element", "Special"})

RECURSIVE generateElement(_, _, _)
RECURSIVE generateChildren(_, _, _)
generateElement(heap, id, indent) ==
    IF heap[id].type = "Special" THEN generateSpecialElement(heap[id])
    ELSE IF heap[id].type # "Element" THEN <<>>
    ELSE IF heap[id].kind = "password"
    THEN <<Lit("<input type=\"password\"")>> \o idAttr(heap[id].properties) \o placeholderAttr(heap[id])
         \o inlineStylesOf(heap[id].properties) \o <<Lit(">")>>
    ELSE IF heap[id].kind = "input"
    THEN <<Lit("<input type=\"text\"")>> \o idAttr(heap[id].properties) \o placeholderAttr(heap[id])
         \o inlineStylesOf(heap[id].properties) \o <<Lit(">")>>
    ELSE IF heap[id].kind = "img"
    THEN <<Lit("<img src=\""), imgSrc(heap[id]), Lit("\" alt=\""), imgAlt(heap[id]), Lit("\"")>>
         \o idAttr(heap[id].properties) \o inlineStylesOf(heap[id].properties) \o <<Lit(">")>>
    ELSE IF heap[id].kind = "link"
    THEN <<Lit("<a href=\""), linkHref(heap[id]), Lit("\"")>>
         \o idAttr(heap[id].properties) \o inlineStylesOf(heap[id].properties) \o <<Lit(">")>>
         \o textNode(heap[id]) \o <<Lit("</a>")>>
    ELSE IF tagOf(heap[id].kind) \in SELF_CLOSING_ELEMENTS THEN openTag(heap[id])
    ELSE IF validChildren(heap, heap[id]) # <<>>
    THEN openTag(heap[id]) \o <<Lit("\n" \o indent \o "  ")>>
         \o JoinPieces(generateChildren(heap, validChildren(heap, heap[id]), indent \o "  "),
                       "\n" \o indent \o "  ")
         \o <<Lit("\n" \o indent \o "</" \o tagOf(heap[id].kind) \o ">")>>
    ELSE openTag(heap[id]) \o textNode(heap[id]) \o <<Lit("</" \o tagOf(heap[id].kind) \o ">")>>

\* validChildren.map((child) => generateElement(child, indent + '  '))
generateChildren(heap, ids, indent) ==
    IF ids = <<>> THEN <<>>
    ELSE <<generateElement(heap, Head(ids), indent)>> \o generateChildren(heap, Tail(ids), indent)

\* hasTimeElement looking at the top level only
hasTimeElementTopLevel(heap, ids) ==
    \E i \in 1..Len(ids) : heap[ids[i]].type = "Special" /\ heap[ids[i]].kind = "time"

RECURSIVE hasTimeElement(_, _)
hasTimeElement(heap, ids) ==
    \E i \in 1..Len(ids) :
        \/ heap[ids[i]].type = "Special" /\ heap[ids[i]].kind = "time"
        \/ heap[ids[i]].type = "Element" /\ hasTimeElement(heap, heap[ids[i]].children)

generateTimeScript ==
    <<Lit("\n  <script>\n    function updateTime() {\n      const timeElements = document.querySelectorAll('.ctiw-time');\n      const now = new Date().toLocaleTimeString();\n      timeElements.forEach(el => el.textContent = now);\n    }\n    updateTime();\n    setInterval(updateTime, 1000);\n  </script>")>>

\* line 440
bodyNodesOf(document) ==
    SelectSeq(document.children, LAMBDA c : document.nodes[c].type \in {"Element", "Special"})

\* line 435
pageTitle(meta) ==
    IF Truthy(meta.title) THEN Interpolated("title", meta.title.v, escapeHTML(meta.title.v))
    ELSE Lit("CTIW Page")

\* lines 436 and 452
langAttr(meta) ==
    IF ~Truthy(meta.language) THEN <<>>
    ELSE IF ToLowerCase(meta.language.v) \in DOMAIN LANGUAGE_MAP
    THEN <<Lit(" lang=\"" \o LANGUAGE_MAP[ToLowerCase(meta.language.v)] \o "\"")>>
    ELSE <<Lit(" lang=\""), Interpolated("language", meta.language.v, meta.language.v), Lit("\"")>>

\* lines 437 and 460: NaN and 0 are falsy
fontSizeRule(meta) ==
    IF meta.fontSize.some /\ ~meta.fontSize.nan /\ meta.fontSize.n # 0
    THEN <<Lit(" font-size: " \o NumberToStr(meta.fontSize.n) \o "px;")>>
    ELSE <<>>

\* line 446: one entry per body node
bodyEntry(document, id) == <<Lit("  ")>> \o generateElement(document.nodes, id, "  ")

\* lines 454-467: the template, given the CSS and the body entries computed before
buildHTML(document, css, entries) ==
    <<Lit("<!DOCTYPE html>\n<html")>> \o langAttr(document.metadata)
    \o <<Lit(">\n<head>\n  <meta charset=\"utf-8\">\n  <title>"), pageTitle(document.metadata),
         Lit("</title>\n  <style>\n    body { font-family: sans-serif; padding: 20px;")>>
    \o fontSizeRule(document.metadata)
    \o <<Lit(" }\n    ")>> \o css \o <<Lit("\n  </style>\n</head>\n<body>\n")>>
    \o JoinPieces(entries, "\n")
    \o (IF hasTimeElement(document.nodes, bodyNodesOf(document)) THEN generateTimeScript ELSE <<>>)
    \o <<Lit("\n</body>\n</html>")>>

RECURSIVE bodyEntries(_, _)
bodyEntries(document, ids) ==
    IF ids = <<>> THEN <<>> ELSE <<bodyEntry(document, Head(ids))>> \o bodyEntries(document, Tail(ids))

generateHTML(document) ==
    buildHTML(document, generateCSS(document.nodes, bodyNodesOf(document)),
              bodyEntries(document, bodyNodesOf(document)))

(***************************************************************************)
(* The inputs of the parser: an optional header, up to MaxBody body lines  *)
(* of one family, an optional footer and what may follow it.               *)
(***************************************************************************)
NestingLines == {"=divide=", "..=divide=", "=divide= id:a=", "=text=Hi=", "..=text=Hi=",
                 "....=text=Hi="}
MetadataLines == {"=title=A=", "=title=B=", "=title==", "=language=English=", "=font-size=20=",
                  "=text=Hi="}
MalformedLines == {"oops", "=bad", "=foo=x=", "=(date)=", "=(time)=", ""}
LineFamilies == {NestingLines, MetadataLines, MalformedLines}

HeaderChoices == {<<>>, <<"", "  =CTIW= ">>}
FooterChoices == {<<>>, <<" ==CTIW== ">>, <<"==CTIW==", "=text=Hi=">>}

RECURSIVE JoinLines(_)
JoinLines(ls) == IF ls = <<>> THEN ""
                 ELSE IF Len(ls) = 1 THEN ls[1]
                 ELSE ls[1] \o "\n" \o JoinLines(Tail(ls))

\* the source text made of the chosen lines
SourceOf(h, b, f) == JoinLines(h \o b \o f)

(***************************************************************************)
(* Projects store (projects.ts).  A Date is its time in the model's clock   *)
(* ticks, the starter code is named by its title, and the item in           *)
(* localStorage is absent, a serialized list, or text JSON.parse rejects.   *)
(***************************************************************************)
StarterDate == 0

DEFAULT_PROJECTS ==
    <<[id |-> "starter-hello-world", name |-> "Hello World", code |-> "Hello World!",
       createdAt |-> StarterDate, updatedAt |-> StarterDate],
      [id |-> "starter-my-first-page", name |-> "My First Page", code |-> "My Awesome Page",
       createdAt |-> StarterDate, updatedAt |-> StarterDate],
      [id |-> "starter-colorful-page", name |-> "Colorful Page", code |-> "My Colorful Page",
       createdAt |-> StarterDate, updatedAt |-> StarterDate]>>

\* Date.toISOString() and new Date(iso)
toISOString(date) == [iso |-> date]
DateOf(text) == text.iso

serializeProject(project) ==
    [project EXCEPT !.createdAt = toISOString(@), !.updatedAt = toISOString(@)]

deserializeProject(data) ==
    [data EXCEPT !.createdAt = DateOf(@), !.updatedAt = DateOf(@)]

NoItem == [kind |-> "none", items |-> <<>>]
Unparsable == [kind |-> "unparsable", items |-> <<>>]
ItemOf(list) == [kind |-> "list", items |-> [i \in 1..Len(list) |-> serializeProject(list[i])]]

\* saveProjectsToStorage: the item afterwards; setItem may throw, which is
\* caught and leaves the item as it was
saveProjectsToStorage(item, list) == {ItemOf(list), item}

\* loadProjects: the list it returns and the items it can leave behind
loadProjects(item) ==
    IF item.kind = "none"
    THEN [list |-> DEFAULT_PROJECTS, items |-> saveProjectsToStorage(item, DEFAULT_PROJECTS)]
    ELSE IF item.kind = "unparsable"
    THEN [list |-> DEFAULT_PROJECTS, items |-> {item}]
    ELSE [list |-> [i \in 1..Len(item.items) |-> deserializeProject(item.items[i])], items |-> {item}]

\* Date.now() and new Date() during the n-th call on the store
DateNow(n) == n

\* generateId during the n-th call
generateId(n) == "project-" \o NumberToStr(DateNow(n))

\* findIndex((p) => p.id === id) + 1: 0 when there is none
FindIndex(list, id) ==
    IF \E i \in 1..Len(list) : list[i].id = id
    THEN CHOOSE i \in 1..Len(list) : list[i].id = id /\ \A j \in 1..(i - 1) : list[j].id # id
    ELSE 0

createProject(list, name, text, n) ==
    Append(list, [id |-> generateId(n), name |-> name, code |-> text,
                  createdAt |-> DateNow(n), updatedAt |-> DateNow(n)])

\* { ...this._projects[index], ...updates, updatedAt: new Date() }
updateProject(list, id, updates, n) ==
    IF FindIndex(list, id) = 0 THEN list
    ELSE [list EXCEPT ![FindIndex(list, id)] =
              [@ EXCEPT !.name = IF updates.name.some THEN updates.name.v ELSE @,
                        !.code = IF updates.code.some THEN updates.code.v ELSE @,
                        !.updatedAt = DateNow(n)]]

\* deleteProject without the test for starter projects
deleteProjectAny(list, id) == SelectSeq(list, LAMBDA p : p.id # id)

deleteProject(list, id) ==
    IF StartsWith(id, "starter-") THEN list ELSE SelectSeq(list, LAMBDA p : p.id # id)

\* does deleteProject, updateProject save?  (the early returns do not)
deleteSaves(id) == ~StartsWith(id, "starter-")
updateSaves(list, id) == FindIndex(list, id) # 0

getProject(list, id) == IF FindIndex(list, id) = 0 THEN None ELSE Some(list[FindIndex(list, id)])

duplicateProject(list, id, n) ==
    IF ~getProject(list, id).some THEN list
    ELSE createProject(list, getProject(list, id).v.name \o " (Copy)", getProject(list, id).v.code, n)

NoCall == [op |-> "none", id |-> ""]

(***************************************************************************)
(* Editor (Editor.svelte).                                                 *)
(***************************************************************************)
\* editorView is undefined
NoEditor == "<no editor>"

\* lines 137-153, the $effect.pre: does it dispatch?
effectDispatches(currentCode, editorContent, focused) ==
    /\ editorContent # NoEditor
    /\ currentCode # editorContent
    /\ ~focused

\* the document after the $effect.pre: the dispatch replaces all of it by the code
effectPre(currentCode, editorContent, focused) ==
    IF effectDispatches(currentCode, editorContent, focused) THEN currentCode ELSE editorContent

(***************************************************************************)
(* The parser as a state machine.                                          *)
(***************************************************************************)
ParserState ==
    [lines |-> lines, currentLine |-> currentLine, errors |-> errors, metadata |-> metadata,
     nodes |-> nodes, body |-> body, containerStack |-> containerStack, pc |-> pc, result |-> result]

SetParser(next) ==
    \E st \in {next} :
    /\ lines' = st.lines
    /\ currentLine' = st.currentLine
    /\ errors' = st.errors
    /\ metadata' = st.metadata
    /\ nodes' = st.nodes
    /\ body' = st.body
    /\ containerStack' = st.containerStack
    /\ pc' = st.pc
    /\ result' = st.result

LexerIdle ==
    /\ source = ""
    /\ pos = 0
    /\ line = 1
    /\ column = 1
    /\ tokens = <<>>
    /\ lexErrors = <<>>
    /\ inValueContext = FALSE
    /\ atStatementStart = TRUE
    /\ lpc = "idle"
    /\ returned = <<>>
    /\ handed = NoArray

StoreIdle ==
    /\ projects = <<>>
    /\ localStorage = NoItem
    /\ storeCalls = 0
    /\ lastCall = NoCall

EditorIdle ==
    /\ code = ""
    /\ editorDoc = NoEditor
    /\ hasFocus = FALSE
    /\ effectPending = FALSE
    /\ changes = 0
    /\ dispatched = 0

AppIdle == StoreIdle /\ EditorIdle

GenIdle ==
    /\ doc = createDocument(<<>>, NoMetadata, <<>>, 1)
    /\ gpc = "idle"
    /\ elementCSS = <<>>
    /\ bodyContent = <<>>
    /\ html = <<>>

\* single title statements: with a marker inside the text, and with attributes
TitleBodies == {<<"=title=a=b=">>, <<"=title=Hello= id:main=">>, <<"=title= id:x=">>}

\* single statements with attributes: a value holding a colon, in both
\* notations, and a name given twice
AttributeBodies == {<<"=text=Go= href:http://x=">>, <<"=text=Go= href=http://x=">>,
                    <<"=divide= id:a= id:b=">>, <<"=divide= color=FF0000= color:00FF00=">>}

\* a container in a container, the inner one opened with and without attributes
NestedBodies == {<<"=divide= id:a=", "..=divide= id:b=", "....=text=Hi=", "..=divide=", "..=text=Hi=", "=divide=">>,
                 <<"=divide=", "..=divide=", "....=text=Hi=", "..=divide=", "=divide=">>}

\* bad lines among statements, inside and outside an open container
BrokenBodies == {<<"=foo=x=", "=text=Hi=", "=bad">>,
                 <<"=divide=", "..oops", "..=text=Hi=", "=bad", "=divide=", "=(date)=", "=title=A=">>}

\* a statement behind one dot, inside a container
DottedBodies == {<<"=divide= id:a=", ".=text=Hi=", "=divide=">>}

\* keywords in upper and mixed case, the container keyword opening and closing
CasedBodies == {<<"=Divide= id:a=", "..=TEXT=Hi=", "=DIVIDE=", "=text=Hi=">>}

Init ==
    /\ \E h \in HeaderChoices, F \in LineFamilies, k \in 0..MaxBody, f \in FooterChoices :
        \E b \in [1..k -> F] \cup TitleBodies \cup AttributeBodies \cup NestedBodies
                         \cup BrokenBodies \cup DottedBodies \cup CasedBodies :
        \E st \in {NewParser(SourceOf(h, b, f))} :
              /\ lines = st.lines
              /\ currentLine = st.currentLine
              /\ errors = st.errors
              /\ metadata = st.metadata
              /\ nodes = st.nodes
              /\ body = st.body
              /\ containerStack = st.containerStack
              /\ pc = st.pc
              /\ result = st.result
    /\ LexerIdle
    /\ GenIdle
    /\ AppIdle

CurrentIsFooter == currentLine < Len(lines) /\ Trim(lines[currentLine + 1]) = FooterLiteral
CurrentIsBlank == currentLine < Len(lines) /\ Trim(lines[currentLine + 1]) = ""
CurrentIsClose ==
    /\ currentLine < Len(lines)
    /\ ~CurrentIsFooter
    /\ ~CurrentIsBlank
    /\ parseIndentation(lines[currentLine + 1]).content = "=divide="
    /\ Len(containerStack) > 0

ParseHeader ==
    /\ pc = "header"
    /\ SetParser(parseHeaderStep(ParserState))
    /\ UNCHANGED <<lexerVars, genVars, appVars>>

BodyEndOfInput ==
    /\ pc = "body"
    /\ currentLine >= Len(lines)
    /\ SetParser(parseBodyLine(ParserState))
    /\ UNCHANGED <<lexerVars, genVars, appVars>>

BodyFooterSeen ==
    /\ pc = "body"
    /\ CurrentIsFooter
    /\ SetParser(parseBodyLine(ParserState))
    /\ UNCHANGED <<lexerVars, genVars, appVars>>

BodyBlankLine ==
    /\ pc = "body"
    /\ CurrentIsBlank
    /\ SetParser(parseBodyLine(ParserState))
    /\ UNCHANGED <<lexerVars, genVars, appVars>>

BodyCloseContainer ==
    /\ pc = "body"
    /\ CurrentIsClose
    /\ SetParser(parseBodyLine(ParserState))
    /\ UNCHANGED <<lexerVars, genVars, appVars>>

BodyStatement ==
    /\ pc = "body"
    /\ currentLine < Len(lines)
    /\ ~CurrentIsFooter
    /\ ~CurrentIsBlank
    /\ ~CurrentIsClose
    /\ SetParser(parseBodyLine(ParserState))
    /\ UNCHANGED <<lexerVars, genVars, appVars>>

ParseFooter ==
    /\ pc = "footer"
    /\ SetParser(parseFooterStep(ParserState))
    /\ UNCHANGED <<lexerVars, genVars, appVars>>

Next ==
    \/ ParseHeader
    \/ BodyEndOfInput
    \/ BodyFooterSeen
    \/ BodyBlankLine
    \/ BodyCloseContainer
    \/ BodyStatement
    \/ ParseFooter

Spec == Init /\ [][Next]_vars

(***************************************************************************)
(* The lexer as a state machine: tokenize() over a source made of up to    *)
(* MaxFragments fragments of one family.                                   *)
(***************************************************************************)
LexFragments == {"=", "a", "#", " ", "\n", ":", "=t=", "==CTIW=="}
HexFragments == {"12", "aB", "F0", "g7", " "}
ValueFragments == {"=t=a", "=t=1", " b", "=", ":c", "\n"}
ContextFragments == {"=t=a", ".", "a", "\n", "==CTIW=="}
LexFamilies == {LexFragments, HexFragments, ValueFragments, ContextFragments}

RECURSIVE Concat(_)
Concat(ss) == IF ss = <<>> THEN "" ELSE Head(ss) \o Concat(Tail(ss))

ParserIdle ==
    \E st \in {[NewParser("") EXCEPT !.pc = "idle"]} :
    /\ lines = st.lines
    /\ currentLine = st.currentLine
    /\ errors = st.errors
    /\ metadata = st.metadata
    /\ nodes = st.nodes
    /\ body = st.body
    /\ containerStack = st.containerStack
    /\ pc = st.pc
    /\ result = st.result

LexerState ==
    [source |-> source, pos |-> pos, line |-> line, column |-> column, tokens |-> tokens,
     errors |-> lexErrors, inValueContext |-> inValueContext, atStatementStart |-> atStatementStart]

SetLexer(next) ==
    \E L \in {next} :
    /\ source' = L.source
    /\ pos' = L.pos
    /\ line' = L.line
    /\ column' = L.column
    /\ tokens' = L.tokens
    /\ lexErrors' = L.errors
    /\ inValueContext' = L.inValueContext
    /\ atStatementStart' = L.atStatementStart

LexInit ==
    /\ \E F \in LexFamilies, k \in 0..MaxFragments :
        \E fs \in [1..k -> F] :
        \E L \in {NewLexer(Concat(fs))} :
              /\ source = L.source
              /\ pos = L.pos
              /\ line = L.line
              /\ column = L.column
              /\ tokens = L.tokens
              /\ lexErrors = L.errors
              /\ inValueContext = L.inValueContext
              /\ atStatementStart = L.atStatementStart
    /\ lpc = "new"
    /\ returned = <<>>
    /\ handed = NoArray
    /\ ParserIdle
    /\ GenIdle
    /\ AppIdle

\* tokenize() is called, on a new Lexer or on one that has tokenized before
TokenizeBegin ==
    /\ lpc \in {"new", "done"}
    /\ SetLexer(resetLexer(LexerState))
    /\ lpc' = "scanning"
    /\ UNCHANGED <<returned, handed, parserVars, genVars, appVars>>

ScanToken ==
    /\ lpc = "scanning"
    /\ ~isAtEndInternal(LexerState)
    /\ SetLexer(scanToken(LexerState))
    /\ lpc' = "scanning"
    /\ UNCHANGED <<returned, handed, parserVars, genVars, appVars>>

TokenizeEnd ==
    /\ lpc = "scanning"
    /\ isAtEndInternal(LexerState)
    /\ SetLexer(pushEOF(LexerState))
    /\ returned' = <<pushEOF(LexerState).tokens>>
    /\ lpc' = "done"
    /\ UNCHANGED <<handed, parserVars, genVars, appVars>>

LexNext ==
    \/ TokenizeBegin
    \/ ScanToken
    \/ TokenizeEnd

LexSpec == LexInit /\ [][LexNext]_vars

(***************************************************************************)
(* The token stream: up to MaxCalls calls of nextToken() and peek() on a   *)
(* new Lexer.  returned is the log of the calls and of what they returned. *)
(***************************************************************************)
StreamFragments == {"a", " ", "="}

StreamInit ==
    /\ \E k \in 0..MaxFragments :
        \E fs \in [1..k -> StreamFragments] :
        \E L \in {NewLexer(Concat(fs))} :
              /\ source = L.source
              /\ pos = L.pos
              /\ line = L.line
              /\ column = L.column
              /\ tokens = L.tokens
              /\ lexErrors = L.errors
              /\ inValueContext = L.inValueContext
              /\ atStatementStart = L.atStatementStart
    /\ lpc = "stream"
    /\ returned = <<>>
    /\ handed = NoArray
    /\ ParserIdle
    /\ GenIdle
    /\ AppIdle

NextToken ==
    /\ lpc \in {"stream", "caller"}
    /\ Len(returned) < MaxCalls
    /\ SetLexer(nextToken(LexerState).L)
    /\ returned' = Append(returned, [call |-> "nextToken", value |-> nextToken(LexerState).value])
    /\ handed' = afterCall(handed, LexerState, nextToken(LexerState).L)
    /\ UNCHANGED <<lpc, parserVars, genVars, appVars>>

Peek ==
    /\ lpc \in {"stream", "caller"}
    /\ Len(returned) < MaxCalls
    /\ SetLexer(peek(LexerState).L)
    /\ returned' = Append(returned, [call |-> "peek", value |-> peek(LexerState).value])
    /\ handed' = afterCall(handed, LexerState, peek(LexerState).L)
    /\ UNCHANGED <<lpc, parserVars, genVars, appVars>>

StreamNext ==
    \/ NextToken
    \/ Peek

StreamSpec == StreamInit /\ [][StreamNext]_vars

(***************************************************************************)
(* A caller of one Lexer: up to MaxCalls calls of tokenize(), nextToken(),  *)
(* peek() and isAtEnd(), keeping the array its last tokenize() returned.    *)
(***************************************************************************)
CallerInit ==
    /\ \E k \in 0..(MaxCalls - 2) :
        \E fs \in [1..k -> StreamFragments] :
        \E L \in {NewLexer(Concat(fs))} :
              /\ source = L.source
              /\ pos = L.pos
              /\ line = L.line
              /\ column = L.column
              /\ tokens = L.tokens
              /\ lexErrors = L.errors
              /\ inValueContext = L.inValueContext
              /\ atStatementStart = L.atStatementStart
    /\ lpc = "caller"
    /\ returned = <<>>
    /\ handed = NoArray
    /\ ParserIdle
    /\ GenIdle
    /\ AppIdle

Tokenize ==
    /\ lpc = "caller"
    /\ Len(returned) < MaxCalls
    /\ SetLexer(tokenizeAll(LexerState))
    /\ returned' = Append(returned, [call |-> "tokenize", value |-> tokenizeAll(LexerState).tokens])
    /\ handed' = handOver(tokenizeAll(LexerState))
    /\ UNCHANGED <<lpc, parserVars, genVars, appVars>>

IsAtEnd ==
    /\ lpc = "caller"
    /\ Len(returned) < MaxCalls
    /\ SetLexer(isAtEnd(LexerState).L)
    /\ returned' = Append(returned, [call |-> "isAtEnd", value |-> <<isAtEnd(LexerState).value>>])
    /\ handed' = afterCall(handed, LexerState, isAtEnd(LexerState).L)
    /\ UNCHANGED <<lpc, parserVars, genVars, appVars>>

CallerNext ==
    \/ Tokenize
    \/ NextToken
    \/ Peek
    \/ IsAtEnd

CallerSpec == CallerInit /\ [][CallerNext]_vars

(***************************************************************************)
(* The projects store as a state machine: the store constructed over what  *)
(* localStorage holds, then up to MaxStoreCalls calls.                      *)
(***************************************************************************)
UserProject == [id |-> "project-0", name |-> "A", code |-> "x", createdAt |-> StarterDate, updatedAt |-> StarterDate]

StoredItems ==
    {NoItem, Unparsable, ItemOf(<<>>), ItemOf(DEFAULT_PROJECTS), ItemOf(Append(DEFAULT_PROJECTS, UserProject)),
     ItemOf(<<DEFAULT_PROJECTS[1], UserProject>>)}

UpdateChoices == {[name |-> Some("B"), code |-> None], [name |-> None, code |-> Some("y")]}

\* the ids a call may name: those in the store, a starter project that is
\* not in it, and an id of no project
CallIds == {projects[i].id : i \in 1..Len(projects)} \cup {"starter-hello-world", "project-none"}

StoreInit ==
    /\ \E item \in StoredItems :
          /\ projects = loadProjects(item).list
          /\ localStorage \in loadProjects(item).items
    /\ storeCalls = 0
    /\ lastCall = NoCall
    /\ ParserIdle
    /\ LexerIdle
    /\ GenIdle
    /\ EditorIdle

CreateProject ==
    /\ storeCalls < MaxStoreCalls
    /\ storeCalls' = storeCalls + 1
    /\ projects' = createProject(projects, "A", "x", storeCalls')
    /\ localStorage' \in saveProjectsToStorage(localStorage, projects')
    /\ lastCall' = [op |-> "createProject", id |-> ""]
    /\ UNCHANGED <<parserVars, lexerVars, genVars, editorVars>>

UpdateProject ==
    /\ storeCalls < MaxStoreCalls
    /\ storeCalls' = storeCalls + 1
    /\ \E id \in CallIds, updates \in UpdateChoices :
          /\ projects' = updateProject(projects, id, updates, storeCalls')
          /\ localStorage' \in (IF updateSaves(projects, id)
                                THEN saveProjectsToStorage(localStorage, projects') ELSE {localStorage})
          /\ lastCall' = [op |-> "updateProject", id |-> id]
    /\ UNCHANGED <<parserVars, lexerVars, genVars, editorVars>>

DeleteProject ==
    /\ storeCalls < MaxStoreCalls
    /\ storeCalls' = storeCalls + 1
    /\ \E id \in CallIds :
          /\ projects' = deleteProject(projects, id)
          /\ localStorage' \in (IF deleteSaves(id)
                                THEN saveProjectsToStorage(localStorage, projects') ELSE {localStorage})
          /\ lastCall' = [op |-> "deleteProject", id |-> id]
    /\ UNCHANGED <<parserVars, lexerVars, genVars, editorVars>>

DuplicateProject ==
    /\ storeCalls < MaxStoreCalls
    /\ storeCalls' = storeCalls + 1
    /\ \E id \in CallIds :
          /\ projects' = duplicateProject(projects, id, storeCalls')
          /\ localStorage' \in (IF getProject(projects, id).some
                                THEN saveProjectsToStorage(localStorage, projects') ELSE {localStorage})
          /\ lastCall' = [op |-> "duplicateProject", id |-> id]
    /\ UNCHANGED <<parserVars, lexerVars, genVars, editorVars>>

StoreNext ==
    \/ CreateProject
    \/ UpdateProject
    \/ DeleteProject
    \/ DuplicateProject

StoreSpec == StoreInit /\ [][StoreNext]_vars

(***************************************************************************)
(* The editor as a state machine: the component with its bound prop code,  *)
(* up to MaxChanges changes of the code from outside and by typing.  An     *)
(* effect scheduled by a change of code runs before the next event.         *)
(***************************************************************************)
Texts == {"", "a", "b"}

EditorInit ==
    /\ code \in Texts
    /\ editorDoc = NoEditor
    /\ hasFocus = FALSE
    /\ effectPending = TRUE
    /\ changes = 0
    /\ dispatched = 0
    /\ ParserIdle
    /\ LexerIdle
    /\ GenIdle
    /\ StoreIdle

\* lines 115-130, onMount
Mount ==
    /\ editorDoc = NoEditor
    /\ ~effectPending
    /\ editorDoc' = code
    /\ UNCHANGED <<code, hasFocus, effectPending, changes, dispatched, parserVars, lexerVars, genVars, storeVars>>

\* the parent assigns the bound prop: a project is loaded, a snippet inserted
ExternalChange ==
    /\ changes < MaxChanges
    /\ \E text \in Texts \ {code} : code' = text
    /\ effectPending' = TRUE
    /\ changes' = changes + 1
    /\ UNCHANGED <<editorDoc, hasFocus, dispatched, parserVars, lexerVars, genVars, storeVars>>

Focus ==
    /\ editorDoc # NoEditor
    /\ ~effectPending
    /\ hasFocus' = ~hasFocus
    /\ UNCHANGED <<code, editorDoc, effectPending, changes, dispatched, parserVars, lexerVars, genVars, storeVars>>

\* typing, and lines 107-111: the updateListener assigns the document to code
Type ==
    /\ editorDoc # NoEditor
    /\ hasFocus
    /\ ~effectPending
    /\ changes < MaxChanges
    /\ \E text \in Texts \ {editorDoc} :
          /\ editorDoc' = text
          /\ code' = text
          /\ effectPending' = (text # code)
    /\ changes' = changes + 1
    /\ UNCHANGED <<hasFocus, dispatched, parserVars, lexerVars, genVars, storeVars>>

\* lines 134-153: the $effect.pre; the updateListener after its dispatch
\* assigns to code the value it has
RunEffect ==
    /\ effectPending
    /\ effectPending' = FALSE
    /\ editorDoc' = effectPre(code, editorDoc, hasFocus)
    /\ dispatched' = dispatched + (IF effectDispatches(code, editorDoc, hasFocus) THEN 1 ELSE 0)
    /\ UNCHANGED <<code, hasFocus, changes, parserVars, lexerVars, genVars, storeVars>>

EditorNext ==
    \/ Mount
    \/ ExternalChange
    \/ Focus
    \/ Type
    \/ RunEffect

EditorSpec == EditorInit /\ [][EditorNext]_vars

(***************************************************************************)
(* The code generator as a state machine: generateHTML over the Document   *)
(* parsed from up to MaxGenLines body lines.                               *)
(***************************************************************************)
GenLines ==
    {"=text=<a> & \"b\" 'c'=", "=title=A&B=", "=input=Name= id:a<b=", "=link=Go&co= href:x'y=",
     "=img=a&b=", "=divide= id:box= color:FF0000=", "..=text=Hi= size:<=", "=divide=",
     "=language=<x>=", "=language=English=", "=font-size=20=", "=(time)=", "..=(time)=",
     "=text=Hi= id:x>y= margin:5=", "=button=Ok= color:FF0000= in:middle= outline:visible="}

DocumentOf(b) == parse(SourceOf(<<HeaderLiteral>>, b, <<FooterLiteral>>)).result[1].document

\* generateHTML is exported and takes any DocumentNode: besides the parsed
\* Documents, Documents where one node of the tree is an ErrorNode or a
\* Special of a kind the generator does not know
ProblemNodes == {createError("Unknown element type: foo", 1), createSpecial("date", 1)}

RECURSIVE TreeIdsOf(_, _)
TreeIdsOf(heap, ids) ==
    IF ids = <<>> THEN {}
    ELSE {Head(ids)} \cup TreeIdsOf(heap, heap[Head(ids)].children) \cup TreeIdsOf(heap, Tail(ids))

TreeIds(document) == TreeIdsOf(document.nodes, document.children)

WithNode(document, n, node) ==
    [document EXCEPT !.nodes[n] = [node EXCEPT !.line = document.nodes[n].line]]

\* the example of the language description, with and without the blank after the dots
ExampleBody == <<"=divide= id:box= color=FF0000=", "..=text=Red box!=", "=divide=">>
ExampleBodySpaced == <<"=divide= id:box= color=FF0000=", ".. =text=Red box!=", "=divide=">>

GenInit ==
    /\ \E k \in 0..MaxGenLines :
        \E b \in [1..k -> GenLines] \cup {ExampleBody, ExampleBodySpaced} :
            \/ doc = DocumentOf(b)
            \/ \E n \in TreeIds(DocumentOf(b)), node \in ProblemNodes :
                    doc = WithNode(DocumentOf(b), n, node)
    /\ gpc = "css"
    /\ elementCSS = <<>>
    /\ bodyContent = <<>>
    /\ html = <<>>
    /\ ParserIdle
    /\ LexerIdle
    /\ AppIdle

\* line 443
GenerateCSS ==
    /\ gpc = "css"
    /\ elementCSS' = generateCSS(doc.nodes, bodyNodesOf(doc))
    /\ gpc' = "body"
    /\ UNCHANGED <<doc, bodyContent, html, parserVars, lexerVars, appVars>>

\* line 446: the next body node is generated
GenerateBodyNode ==
    /\ gpc = "body"
    /\ Len(bodyContent) < Len(bodyNodesOf(doc))
    /\ bodyContent' = Append(bodyContent, bodyEntry(doc, bodyNodesOf(doc)[Len(bodyContent) + 1]))
    /\ UNCHANGED <<doc, gpc, elementCSS, html, parserVars, lexerVars, appVars>>

\* lines 449-469
BuildHTML ==
    /\ gpc = "body"
    /\ Len(bodyContent) = Len(bodyNodesOf(doc))
    /\ html' = buildHTML(doc, elementCSS, bodyContent)
    /\ gpc' = "done"
    /\ UNCHANGED <<doc, elementCSS, bodyContent, parserVars, lexerVars, appVars>>

GenNext ==
    \/ GenerateCSS
    \/ GenerateBodyNode
    \/ BuildHTML

GenSpec == GenInit /\ [][GenNext]_vars

(***************************************************************************)
(* Lexer and parser on one source text: a Lexer and a Parser are made for  *)
(* the same text of up to MaxSourceLines body lines, and tokenize() and    *)
(* parse() run independently of each other.                                *)
(***************************************************************************)
SourceHeaders == {<<>>, <<HeaderLiteral>>, <<MarkerLiteral>>}
SourceLines == {"", "=divide=", "=text=Hi=", "#oops"}
SourceFooters == {<<>>, <<FooterLiteral>>}

FrontInit ==
    /\ \E h \in SourceHeaders, k \in 0..MaxSourceLines, f \in SourceFooters :
        \E b \in [1..k -> SourceLines] :
        \E st \in {NewParser(SourceOf(h, b, f))}, L \in {NewLexer(SourceOf(h, b, f))} :
              /\ lines = st.lines
              /\ currentLine = st.currentLine
              /\ errors = st.errors
              /\ metadata = st.metadata
              /\ nodes = st.nodes
              /\ body = st.body
              /\ containerStack = st.containerStack
              /\ pc = st.pc
              /\ result = st.result
              /\ source = L.source
              /\ pos = L.pos
              /\ line = L.line
              /\ column = L.column
              /\ tokens = L.tokens
              /\ lexErrors = L.errors
              /\ inValueContext = L.inValueContext
              /\ atStatementStart = L.atStatementStart
    /\ lpc = "new"
    /\ returned = <<>>
    /\ handed = NoArray
    /\ GenIdle
    /\ AppIdle

FrontNext ==
    \/ Next
    \/ LexNext

\* parse() and tokenize() are synchronous calls: a call that has begun keeps
\* executing until it returns.  This is weak fairness of Next and of LexNext
\* with "the call is running" written out as a condition on pc and lpc.
ParserRuns == ([]<>(pc = "done")) \/ ([]<><<Next>>_vars)
LexerRuns == ([]<>(lpc # "scanning")) \/ ([]<><<LexNext>>_vars)

FrontSpec == FrontInit /\ [][FrontNext]_vars /\ ParserRuns /\ LexerRuns

(***************************************************************************)
(* Properties of the parser.                                               *)
(***************************************************************************)
CountKind(errs, kind) == Cardinality({i \in 1..Len(errs) : errs[i].kind = kind})

Front(s) == SubSeq(s, 1, Len(s) - 1)

\* the statement of the line the parser is at
CurrentStatement == parseIndentation(lines[currentLine + 1])

\* C1: parse is total: no input leads into a throwing path (a method call on an
\* undefined line), the parser never reads past the input, and what is
\* returned is a Document together with an error list.
C1_ParseTotal ==
    /\ pc \in {"header", "body", "footer", "done"}
    /\ currentLine <= Len(lines)
    /\ pc = "done" => /\ Len(result) = 1
                      /\ result[1].document.type = "Document"
                      /\ result[1].document.children = body
                      /\ result[1].errors = errors
                      /\ \A i \in 1..Len(errors) : errors[i].line \in Nat

\* C1 witness: an input made only of malformed lines has been parsed to the end
C1_Witness ==
    /\ pc = "done"
    /\ lines = <<"oops", "=bad">>
    /\ Len(result[1].errors) = 4
    /\ result[1].document.children = <<>>

\* C5: at the end of the body one UnmatchedContainer error is reported per
\* container that is still open.
C5_UnmatchedReported ==
    pc = "done" => CountKind(errors, "UnmatchedContainer") = Len(containerStack)

\* the visible title Elements, in the order of their statements
TitleElements == SelectSeq(nodes, LAMBDA n : n.type = "Element" /\ n.kind = "title")

\* C6: metadata.title is the value of the first title statement, whatever that
\* value is, and every title statement adds a visible title Element.
C6_FirstTitleWins ==
    TitleElements # <<>> => metadata.title = Some(TitleElements[1].content.v)

InnermostBelow(stack, indent) ==
    IF \E i \in 1..Len(stack) : stack[i].indent < indent
    THEN CHOOSE i \in 1..Len(stack) :
            stack[i].indent < indent /\ \A j \in (i + 1)..Len(stack) : stack[j].indent >= indent
    ELSE 0

\* C8: a new Element or Special node becomes a child of the innermost open
\* container whose recorded indentation is strictly less than the node's, and a
\* top-level child when there is none.
C8_AttachmentRule ==
    [][Len(nodes') = Len(nodes) + 1 =>
            LET id == Len(nodes')
                k == InnermostBelow(containerStack, CurrentStatement.indent)
            IN  IF k = 0
                THEN body' = Append(body, id)
                ELSE /\ body' = body
                     /\ nodes'[containerStack[k].element].children =
                            Append(nodes[containerStack[k].element].children, id)]_vars

\* the last line that is not blank, trimmed ("" when every line is blank)
RECURSIVE LastNonBlank(_)
LastNonBlank(ls) == IF ls = <<>> THEN ""
                    ELSE IF Trim(ls[Len(ls)]) # "" THEN Trim(ls[Len(ls)])
                    ELSE LastNonBlank(Front(ls))

\* C9: when the last non-blank line is not the document-end marker, a
\* MissingFooter error is recorded, also when an end marker appears earlier.
C9_MissingFooter ==
    (pc = "done" /\ LastNonBlank(lines) # FooterLiteral) => CountKind(errors, "MissingFooter") >= 1

\* the first line that is not blank, trimmed ("" when every line is blank)
RECURSIVE FirstNonBlank(_)
FirstNonBlank(ls) == IF ls = <<>> THEN ""
                     ELSE IF Trim(ls[1]) # "" THEN Trim(ls[1])
                     ELSE FirstNonBlank(Tail(ls))

\* a tree without the line numbers of its nodes
WithoutLines(heap) == [i \in 1..Len(heap) |-> [heap[i] EXCEPT !.line = 0]]

ShiftLines(errs, d) == [i \in 1..Len(errs) |-> [errs[i] EXCEPT !.line = @ + d]]

\* what parse returns for the same input with the start marker prepended
WithHeader == parse(HeaderLiteral \o "\n" \o JoinLines(lines))

RecognizedChar(c) == IsLetter(c) \/ IsDecimal(c) \/ c \in {"=", ":", ".", "(", ")", "\n", " ", "\t"}

\* the lexer once the blanks before the next token are skipped
AfterBlanks == skipWhitespace(LexerState)

\* the next scanToken meets an unrecognized character outside a string value
UnknownAhead ==
    /\ lpc = "scanning"
    /\ ~isAtEndInternal(AfterBlanks)
    /\ ~RecognizedChar(current(AfterBlanks))
    /\ ~shouldScanString(AfterBlanks)

\* the 0-based offset in s of the character at (ln, col), counting lines from the newlines of s
RECURSIVE LineStart(_, _)
LineStart(s, ln) == IF ln <= 1 THEN 0 ELSE IndexFrom(s, "\n", LineStart(s, ln - 1)) + 1

OffsetOf(s, ln, col) == LineStart(s, ln) + col - 1

RemoveAt(s, i) == Slice(s, 0, i) \o SliceFrom(s, i + 1)

Kinds(toks) == [i \in 1..Len(toks) |-> [type |-> toks[i].type, value |-> toks[i].value]]

\* C2 as stated: tokenize ends for every source (never throws), and for every
\* LexError the tokens produced are those of the source with the reported
\* character absent.
C2_AsIfAbsent ==
    lpc = "done" =>
        \A i \in 1..Len(lexErrors) :
            Kinds(tokens) =
                Kinds(tokenize(RemoveAt(source, OffsetOf(source, lexErrors[i].line, lexErrors[i].column))).tokens)

\* C2 amended: a scanToken that meets an unrecognized character outside a
\* string value appends exactly one LexError carrying that character's line
\* and column, skips that one character and leaves the tokens, the line and
\* the context flags as they were, so that scanning resumes at the next
\* character; no other step adds a LexError.
C2_UnknownCharSkipped ==
    [][ /\ UnknownAhead =>
            /\ lexErrors' = Append(lexErrors, [char |-> current(AfterBlanks), line |-> line,
                                               column |-> AfterBlanks.column])
            /\ OffsetOf(source, line, AfterBlanks.column) = AfterBlanks.pos
            /\ pos' = AfterBlanks.pos + 1
            /\ column' = AfterBlanks.column + 1
            /\ tokens' = tokens
            /\ line' = line
            /\ inValueContext' = inValueContext
            /\ atStatementStart' = atStatementStart
            /\ lpc' = "scanning"
        /\ Len(lexErrors') > Len(lexErrors) => UnknownAhead
      ]_vars

\* "a#a" is tokenized: one LexError at line 1, column 2, and the two identifiers around it
C2_Witness ==
    /\ lpc = "done"
    /\ source = "a#a"
    /\ lexErrors = <<[char |-> "#", line |-> 1, column |-> 2]>>
    /\ Kinds(tokens) = <<[type |-> "IDENTIFIER", value |-> "a"], [type |-> "IDENTIFIER", value |-> "a"],
                         [type |-> "EOF", value |-> ""]>>

(***************************************************************************)
(* Properties of the code generator.                                       *)
(***************************************************************************)
EntityNames == {"&amp;", "&lt;", "&gt;", "&quot;", "&#39;"}

EntityOf(c) ==
    IF c = "&" THEN "&amp;" ELSE IF c = "<" THEN "&lt;" ELSE IF c = ">" THEN "&gt;"
    ELSE IF c = "\"" THEN "&quot;" ELSE IF c = "'" THEN "&#39;" ELSE c

\* s with each of its characters & < > " ' replaced by its entity, once
RECURSIVE EntityText(_)
EntityText(s) == IF s = "" THEN "" ELSE EntityOf(SubSeq(s, 1, 1)) \o EntityText(Tail(s))

\* no < > " ' in s, and every & of s starts an entity
NoRawSpecial(s) ==
    \A i \in 1..Len(s) :
        /\ Ch(s, i) \notin {"<", ">", "\"", "'"}
        /\ Ch(s, i) = "&" => \E e \in EntityNames : StartsWith(SliceFrom(s, i - 1), e)

\* C3: no text of the source reaches the HTML returned by generateHTML
\* unescaped: every interpolated value is emitted without a raw & < > " '.
C3_NoUnescapedText ==
    gpc = "done" => \A i \in 1..Len(html) : html[i].role # "lit" => NoRawSpecial(html[i].text)

\* C4: the text node generateElement emits for an element is the element's
\* content with each & < > " ' replaced by its entity exactly once, so it
\* holds none of these characters raw and no doubly escaped ampersand.
C4_TextNodeEscaped ==
    \A e \in 1..Len(bodyContent) :
        \A i \in 1..Len(bodyContent[e]) :
            bodyContent[e][i].role = "text" =>
                /\ \E n \in 1..Len(doc.nodes) : doc.nodes[n].content = Some(bodyContent[e][i].raw)
                /\ bodyContent[e][i].text = EntityText(bodyContent[e][i].raw)
                /\ NoRawSpecial(bodyContent[e][i].text)

\* C4 witness: a paragraph whose content holds all five characters has been generated
C4_Witness ==
    /\ gpc = "done"
    /\ Len(bodyContent) >= 1
    /\ \E i \in 1..Len(bodyContent[1]) :
          /\ bodyContent[1][i].role = "text"
          /\ bodyContent[1][i].raw = "<a> & \"b\" 'c'"
          /\ bodyContent[1][i].text = "&lt;a&gt; &amp; &quot;b&quot; &#39;c&#39;"
    /\ Includes(Render(html), "<p>&lt;a&gt; &amp; &quot;b&quot; &#39;c&#39;</p>")

IsAlphaNumeric(c) == IsLetter(c) \/ IsDecimal(c)

IsHexChar(c) == IsDecimal(c) \/ PosIn("abcdefABCDEF", c) > 0

\* the number of letters of s outside a-f / A-F
RECURSIVE NonHexLetters(_)
NonHexLetters(s) ==
    IF s = "" THEN 0
    ELSE (IF IsLetter(SubSeq(s, 1, 1)) /\ ~IsHexChar(SubSeq(s, 1, 1)) THEN 1 ELSE 0) + NonHexLetters(Tail(s))

\* C12: a bare 6-character token of hexadecimal digits only is one HexColor
\* token, and a bare 6-character alphanumeric token with one letter outside
\* a-f / A-F is one Identifier token, whether it starts with a digit or a letter.
C12_HexColorBoundary ==
    (lpc = "done" /\ Len(source) = 6 /\ AllChars(source, IsAlphaNumeric)) =>
        /\ NonHexLetters(source) = 0 =>
              Kinds(tokens) = <<[type |-> "HEX_COLOR", value |-> source], [type |-> "EOF", value |-> ""]>>
        /\ NonHexLetters(source) = 1 =>
              Kinds(tokens) = <<[type |-> "IDENTIFIER", value |-> source], [type |-> "EOF", value |-> ""]>>

IsMarkerToken(tok) == tok.type \in {"CTIW_START", "CTIW_END"}

Occurrences(s, sub) ==
    Cardinality({i \in 1..(Len(s) - Len(sub) + 1) : SubSeq(s, i, i + Len(sub) - 1) = sub})

TimeNodes(document) ==
    {n \in TreeIds(document) :
        document.nodes[n].type = "Special" /\ document.nodes[n].kind = "time"}

\* C14: the clock-update script is in the page exactly once when the tree
\* holds a time node, at the top level or inside a container, and not at all
\* when it holds none, whatever the number of time nodes.
C14_TimeScriptOnce ==
    gpc = "done" =>
        Occurrences(Render(html), Render(generateTimeScript)) = (IF TimeNodes(doc) # {} THEN 1 ELSE 0)

\* C14 witness: a page with one time node inside a container, and its script
C14_Witness ==
    /\ gpc = "done"
    /\ Cardinality(TimeNodes(doc)) = 1
    /\ Len(doc.children) = 1
    /\ doc.nodes[doc.children[1]].kind = "divide"
    /\ Len(doc.nodes[doc.children[1]].children) = 1
    /\ Occurrences(Render(html), "<script>") = 1
    /\ Occurrences(Render(html), "<span class=\"ctiw-time\"></span>") = 1

(***************************************************************************)
(* Error recovery in the tree.                                             *)
(***************************************************************************)
ErrorNodes(heap) == {n \in 1..Len(heap) : heap[n].type = "Error"}

\* C15: an unrecognized element keyword or special keeps its position: for
\* each such error an ErrorNode is in the tree, attached where the node
\* would have been.
C15_ErrorNodeInserted ==
    /\ Cardinality(ErrorNodes(nodes)) =
            CountKind(errors, "UnknownElementKind") + CountKind(errors, "UnknownSpecialKind")
    /\ \A n \in ErrorNodes(nodes) :
            \/ \E i \in 1..Len(body) : body[i] = n
            \/ \E c \in 1..Len(nodes) : \E i \in 1..Len(nodes[c].children) : nodes[c].children[i] = n

(***************************************************************************)
(* Nodes the generator does not know.                                      *)
(***************************************************************************)
ProblemNodesOf(document) ==
    {n \in TreeIds(document) :
        \/ document.nodes[n].type = "Error"
        \/ document.nodes[n].type = "Special" /\ document.nodes[n].kind # "time"}

\* C16: every ErrorNode and every Special of an unknown kind in the Document
\* is rendered as one HTML comment in the generated page.
C16_ProblemNodesAsComments ==
    gpc = "done" => Occurrences(Render(html), "<!--") = Cardinality(ProblemNodesOf(doc))

(***************************************************************************)
(* Styles with and without an id.                                          *)
(***************************************************************************)
ElementsOf(document) == {n \in TreeIds(document) : document.nodes[n].type = "Element"}

HasId(element) == Truthy(GetProp(element.properties, "id"))

\* the same element, given the id x
WithId(element) == [element EXCEPT !.properties = Append(@, [k |-> "id", v |-> "x"])]

\* the style attribute carrying the declarations of a CSS rule "#x { ...; }"
StyleAttrOfRule(rule) ==
    IF rule = "" THEN "" ELSE " style=\"" \o SubSeq(rule, Len("#x { ") + 1, Len(rule) - Len("; }")) \o "\""

Styled(document, withId) ==
    {n \in ElementsOf(document) :
        /\ HasId(document.nodes[n]) = withId
        /\ generateElementCSS(WithId(document.nodes[n])) # <<>>}

\* C17: an element without an id carries in its style attribute exactly the
\* declarations its CSS rule would carry if it had an id, and gets no rule;
\* an element with an id gets one rule and no style attribute.
C17_InlineStylesMatchRule ==
    gpc = "done" =>
        /\ \A n \in ElementsOf(doc) :
              IF HasId(doc.nodes[n])
              THEN /\ inlineStylesOf(doc.nodes[n].properties) = <<>>
                   /\ Render(generateElementCSS(doc.nodes[n])) # ""
                        => Occurrences(Render(elementCSS), Render(generateElementCSS(doc.nodes[n]))) >= 1
              ELSE /\ Render(inlineStylesOf(doc.nodes[n].properties))
                        = StyleAttrOfRule(Render(generateElementCSS(WithId(doc.nodes[n]))))
                   /\ generateElementCSS(doc.nodes[n]) = <<>>
                   /\ Occurrences(Render(html), Render(inlineStylesOf(doc.nodes[n].properties))) >= 1
        /\ Occurrences(Render(html), " style=\"") = Cardinality(Styled(doc, FALSE))
        /\ Occurrences(Render(html), " { ") = 1 + Cardinality(Styled(doc, TRUE))

C17_Witness ==
    /\ gpc = "done"
    /\ Cardinality(Styled(doc, FALSE)) = 1
    /\ Cardinality(Styled(doc, TRUE)) = 1
    /\ Occurrences(Render(html),
                   " style=\"background-color: #FF0000; text-align: center; border: 1px solid black\"") = 1
    /\ Occurrences(Render(html), "#x>y { margin: 5px; }") = 1

(***************************************************************************)
(* Shape of the parsed tree.                                               *)
(***************************************************************************)
ChildrenOf(heap, n) == {heap[n].children[i] : i \in 1..Len(heap[n].children)}

\* C18: the nesting depth recorded on an Element is the depth its line is
\* indented to, and a child Element records a greater depth than the
\* container that owns it.
C18_NestingDepthRecorded ==
    \A n \in 1..Len(nodes) :
        nodes[n].type = "Element" =>
            /\ nodes[n].line \in 1..Len(lines)
            /\ nodes[n].indent = parseIndentation(lines[nodes[n].line]).indent
            /\ \A c \in ChildrenOf(nodes, n) :
                    nodes[c].type = "Element" => nodes[c].indent > nodes[n].indent

IsContainer(node) == node.type = "Element" /\ node.kind = "divide"

\* C19: only divide Elements have children, and only divide Elements are on
\* the stack of open containers.
C19_OnlyContainersOwn ==
    /\ \A n \in 1..Len(nodes) : nodes[n].children # <<>> => IsContainer(nodes[n])
    /\ \A i \in 1..Len(containerStack) :
            /\ containerStack[i].element \in 1..Len(nodes)
            /\ IsContainer(nodes[containerStack[i].element])

C19_Witness ==
    /\ pc = "body"
    /\ Len(nodes) = 3
    /\ nodes[1].children = <<2, 3>>
    /\ nodes[2].kind = "text" /\ nodes[3].kind = "text"
    /\ body = <<1>>
    /\ containerStack = <<[element |-> 1, indent |-> 0]>>

(***************************************************************************)
(* Value scanning.                                                         *)
(***************************************************************************)
IsBlank(c) == c \in {" ", "\t"}

\* the first position from i on that is the end of the source or holds no blank
FirstUnblank(src, i) ==
    CHOOSE j \in i..Len(src) :
        /\ j = Len(src) \/ ~IsBlank(CharAt(src, j))
        /\ \A h \in i..(j - 1) : IsBlank(CharAt(src, h))

\* the first position from i on that is the end of the source or holds no identifier character
FirstNonIdentifier(src, i) ==
    CHOOSE j \in i..Len(src) :
        /\ j = Len(src) \/ ~isAlphaNumericOrHyphen(CharAt(src, j))
        /\ \A h \in i..(j - 1) : isAlphaNumericOrHyphen(CharAt(src, h))

\* an identifier starts at i and is followed by ":" or by "=" and content
AttributeStartsAt(src, i) ==
    /\ i < Len(src)
    /\ isAlpha(CharAt(src, i))
    /\ FirstNonIdentifier(src, i) < Len(src)
    /\ \/ CharAt(src, FirstNonIdentifier(src, i)) = ":"
       \/ /\ CharAt(src, FirstNonIdentifier(src, i)) = "="
          /\ FirstUnblank(src, FirstNonIdentifier(src, i) + 1) < Len(src)
          /\ CharAt(src, FirstUnblank(src, FirstNonIdentifier(src, i) + 1)) \notin {"=", "\n"}

\* the value that starts at p stops at q
StopsValue(src, p, q) ==
    \/ q = Len(src)
    \/ CharAt(src, q) \in {"=", "\n"}
    \/ IsBlank(CharAt(src, q)) /\ AttributeStartsAt(src, FirstUnblank(src, q))
    \/ q = p /\ AttributeStartsAt(src, p)

ValueEnd(src, p) ==
    CHOOSE q \in p..Len(src) : StopsValue(src, p, q) /\ \A h \in p..(q - 1) : ~StopsValue(src, p, h)

ValueRun(src, p) == Trim(Slice(src, p, ValueEnd(src, p)))

\* C20: in value-scanning mode the run of characters up to the closing
\* marker, the end of the line, or a blank before an attribute is captured
\* as one String token.
C20_ValueRunIsOneString ==
    [][(lpc = "scanning" /\ lpc' = "scanning" /\ inValueContext
        /\ ValueRun(source, FirstUnblank(source, pos)) # "")
       => /\ pos' = ValueEnd(source, FirstUnblank(source, pos))
          /\ Kinds(tokens') = Append(Kinds(tokens),
                                     [type |-> "STRING",
                                      value |-> ValueRun(source, FirstUnblank(source, pos))])]_vars

(***************************************************************************)
(* Entering value scanning.                                                *)
(***************************************************************************)
\* the tokens from the beginning of the line up to index i are all dots
DotRunAtLineStart(toks, i) ==
    /\ i >= 1
    /\ \E b \in 1..i :
          /\ \A j \in b..i : toks[j].type = "DOT"
          /\ b = 1 \/ toks[b - 1].type = "NEWLINE"

\* toks[i] opens a statement
AtStatementStart(toks, i) ==
    \/ i = 1
    \/ toks[i - 1].type \in {"NEWLINE", "CTIW_START"}
    \/ DotRunAtLineStart(toks, i - 1)

\* the three tokens that end at index i are marker, identifier, marker at statement start
PrimaryPatternEndsAt(toks, i) ==
    /\ i >= 3
    /\ toks[i].type = "EQUALS"
    /\ toks[i - 1].type = "IDENTIFIER"
    /\ toks[i - 2].type = "EQUALS"
    /\ AtStatementStart(toks, i - 2)

\* C21: while scanning, value-scanning mode is on only right after the
\* primary pattern at statement start, and every String token directly
\* follows such a pattern.
C21_ValueModeOnlyAtStatementStart ==
    /\ (lpc = "scanning" /\ inValueContext) => PrimaryPatternEndsAt(tokens, Len(tokens))
    /\ \A i \in 1..Len(tokens) : tokens[i].type = "STRING" => PrimaryPatternEndsAt(tokens, i - 1)

(***************************************************************************)
(* Termination.                                                            *)
(***************************************************************************)
EndOfInputTokens(toks) == {i \in 1..Len(toks) : toks[i].type = "EOF"}

\* C22: parse and tokenize run to their end; every scanToken step moves on
\* in the source, every iteration of parseBody moves on to the next line or
\* leaves the loop, and the tokens returned hold one EOF token, the last.
C22_Terminates ==
    /\ <>(pc = "done")
    /\ (lpc = "scanning") ~> (lpc = "done")
    /\ []((lpc = "scanning" /\ ~isAtEndInternal(LexerState)) => scanToken(LexerState).pos > pos)
    /\ [](pc = "body" => \/ parseBodyLine(ParserState).pc \in {"footer", "done"}
                         \/ parseBodyLine(ParserState).currentLine > currentLine)
    /\ [](lpc = "done" => EndOfInputTokens(tokens) = {Len(tokens)})

C22_Witness ==
    /\ pc = "done"
    /\ lpc = "done"
    /\ lines = <<"=divide=", "#oops", "==CTIW==">>
    /\ currentLine = 3
    /\ pos = Len(source)
    /\ Len(lexErrors) = 1
    /\ Len(tokens) = 8

(***************************************************************************)
(* The example of the language description, end to end.                    *)
(***************************************************************************)
ExampleResult(b) == parse(SourceOf(<<HeaderLiteral>>, b, <<FooterLiteral>>)).result[1]

\* C23: the example parses without errors into one container that holds one
\* text child, and its page has the div with the id, the nested paragraph
\* and the CSS rule of the box.
C23_ExampleEndToEnd ==
    \A b \in {ExampleBody, ExampleBodySpaced} :
        (gpc = "done" /\ doc = ExampleResult(b).document) =>
            /\ ExampleResult(b).errors = <<>>
            /\ Len(doc.children) = 1
            /\ IsContainer(doc.nodes[doc.children[1]])
            /\ Len(doc.nodes[doc.children[1]].children) = 1
            /\ doc.nodes[doc.nodes[doc.children[1]].children[1]].kind = "text"
            /\ doc.nodes[doc.nodes[doc.children[1]].children[1]].content = Some("Red box!")
            /\ Occurrences(Render(html), "<div id=\"box\">\n    <p>Red box!</p>\n  </div>") = 1
            /\ Occurrences(Render(html), "#box { background-color: #FF0000; }") = 1

C23_Witness ==
    /\ gpc = "done"
    /\ doc = ExampleResult(ExampleBody).document
    /\ Len(doc.nodes) = 2
    /\ Len(bodyContent) = 1
    /\ Occurrences(Render(html), "<p>Red box!</p>") = 1

(***************************************************************************)
(* Where a new node goes.                                                  *)
(***************************************************************************)
CurrentIndent == parseIndentation(lines[currentLine + 1]).indent

\* the nodes that gain a child in the step
Adopting == {n \in 1..Len(nodes) : nodes'[n].children # nodes[n].children}

\* C24: a statement at indentation 0 that makes a node adds it to the
\* top-level children, whatever containers are open; a container gets
\* a new child only from a statement indented by at least one level.
C24_TopLevelAtIndentZero ==
    [][(pc = "body" /\ Len(nodes') = Len(nodes) + 1) =>
            /\ CurrentIndent = 0 => (body' = Append(body, Len(nodes')) /\ Adopting = {})
            /\ Adopting # {} => (CurrentIndent > 0 /\ body' = body)]_vars

C24_Witness ==
    /\ pc = "body"
    /\ lines = <<"=divide=", "=text=Hi=", "..=text=Hi=">>
    /\ currentLine = 2
    /\ body = <<1, 2>>
    /\ Len(containerStack) = 1
    /\ nodes[1].children = <<>>

(***************************************************************************)
(* The token stream.                                                       *)
(***************************************************************************)
\* the number of nextToken() calls among the first i calls
Taken(log, i) == Cardinality({j \in 1..i : log[j].call = "nextToken"})

\* C25: each call, peek() or nextToken(), returns the token that follows the
\* tokens taken by nextToken() so far, in the order of tokenize(); so peek()
\* takes nothing and the nextToken() after it returns the same token.
C25_PeekDoesNotConsume ==
    lpc = "stream" =>
        \A i \in 1..Len(returned) :
            Taken(returned, i - 1) < Len(tokenize(source).tokens) =>
                returned[i].value = <<tokenize(source).tokens[Taken(returned, i - 1) + 1]>>

C25_Witness ==
    /\ lpc = "stream"
    /\ source = "a="
    /\ [i \in 1..Len(returned) |-> returned[i].call] = <<"peek", "peek", "nextToken", "nextToken">>
    /\ returned[2].value = returned[3].value
    /\ returned[4].value[1].type = "EQUALS"
    /\ Len(tokens) = 1

(***************************************************************************)
(* The document markers in the lexer and in the parser.                    *)
(***************************************************************************)
TokensOfType(toks, type) == {i \in 1..Len(toks) : toks[i].type = type}

\* the first token that is not a line break
FirstOnPage(toks) == SelectSeq(toks, LAMBDA tok : tok.type # "NEWLINE")[1]

\* C26: on the same text, parse accepts the header exactly when the lexer
\* finds the document-start marker first, and parse accepts the footer
\* exactly when the lexer finds a document-end marker.
C26_MarkersAgree ==
    (pc = "done" /\ lpc = "done") =>
        /\ CountKind(errors, "MissingHeader") = 0 <=> FirstOnPage(tokens).type = "CTIW_START"
        /\ CountKind(errors, "MissingFooter") = 0 <=> TokensOfType(tokens, "CTIW_END") # {}

(***************************************************************************)
(* The title in the metadata and on the page.                              *)
(***************************************************************************)
\* C27: after a parse with one title statement, metadata.title is the
\* content of the title Element made from that statement.
C27_TitleSameAsElement ==
    (pc = "done" /\ Len(TitleElements) = 1) => metadata.title = TitleElements[1].content

(***************************************************************************)
(* Attributes as written and as stored.                                    *)
(***************************************************************************)
\* 0-based index of the first ":" or "=" of the word, -1 when it has neither
FirstSeparator(word) ==
    LET c == IndexOf(word, ":")
        e == IndexOf(word, "=")
    IN  IF c = -1 THEN e ELSE IF e = -1 \/ c < e THEN c ELSE e

WrittenName(word) == Slice(word, 0, FirstSeparator(word))
WrittenValue(word) == Slice(word, FirstSeparator(word) + 1, Len(word) - 1)

\* name, separator, a value without the marker, closing marker
IsWrittenAttribute(word) ==
    /\ Len(word) >= 3
    /\ Ch(word, Len(word)) = "="
    /\ FirstSeparator(word) \in 1..(Len(word) - 2)
    /\ ~Includes(WrittenValue(word), "=")

\* the words after the statement's first word
AttributeWords(text) ==
    IF tokenizeElementLine(text) = <<>> THEN <<>> ELSE Tail(tokenizeElementLine(text))

\* C28: every attribute written name:value= or name=value= is stored under
\* name with the whole text between its first separator and its closing
\* marker; of several with one name the last is the one stored.
C28_AttributeStoredWhole ==
    \A n \in 1..Len(nodes) :
        nodes[n].type = "Element" =>
            LET words == AttributeWords(lines[nodes[n].line])
            IN  \A i \in 1..Len(words) :
                    (/\ IsWrittenAttribute(words[i])
                     /\ \A j \in (i + 1)..Len(words) :
                            ~(IsWrittenAttribute(words[j]) /\ WrittenName(words[j]) = WrittenName(words[i])))
                    => GetProp(nodes[n].properties, WrittenName(words[i])) = Some(WrittenValue(words[i]))

(***************************************************************************)
(* Properly nested documents.                                              *)
(***************************************************************************)
\* The lines from i on are properly nested below d open containers: a bare
\* container keyword met while a container is open closes the innermost one
\* and stands at its opener's level, every other statement stands one level
\* below the innermost open container (at level 0 when none is open), and at
\* the footer or the end nothing is open.  A header is skipped where it
\* leads the text.
RECURSIVE NestedFrom(_, _, _, _)
NestedFrom(ls, i, d, leading) ==
    IF i > Len(ls) THEN d = 0
    ELSE LET ind == parseIndentation(ls[i])
         IN  IF Trim(ls[i]) = FooterLiteral THEN d = 0
             ELSE IF Trim(ls[i]) = "" THEN NestedFrom(ls, i + 1, d, leading)
             ELSE IF leading /\ Trim(ls[i]) = HeaderLiteral THEN NestedFrom(ls, i + 1, d, FALSE)
             ELSE IF ind.content = "=divide=" /\ d > 0
             THEN ind.indent = d - 1 /\ NestedFrom(ls, i + 1, d - 1, FALSE)
             ELSE /\ ind.indent = d
                  /\ NestedFrom(ls, i + 1, IF StartsWith(ind.content, "=divide=") THEN d + 1 ELSE d, FALSE)

ProperlyNested(ls) == NestedFrom(ls, 1, 0, TRUE)

\* The same reading the indentation alone: a bare container keyword closes
\* when it stands at the level of the innermost opener, and opens a container
\* when it stands one level below it.
RECURSIVE WrittenNestedFrom(_, _, _, _)
WrittenNestedFrom(ls, i, d, leading) ==
    IF i > Len(ls) THEN d = 0
    ELSE LET ind == parseIndentation(ls[i])
         IN  IF Trim(ls[i]) = FooterLiteral THEN d = 0
             ELSE IF Trim(ls[i]) = "" THEN WrittenNestedFrom(ls, i + 1, d, leading)
             ELSE IF leading /\ Trim(ls[i]) = HeaderLiteral THEN WrittenNestedFrom(ls, i + 1, d, FALSE)
             ELSE IF ind.content = "=divide=" /\ d > 0 /\ ind.indent = d - 1
             THEN WrittenNestedFrom(ls, i + 1, d - 1, FALSE)
             ELSE /\ ind.indent = d
                  /\ WrittenNestedFrom(ls, i + 1, IF StartsWith(ind.content, "=divide=") THEN d + 1 ELSE d, FALSE)

WrittenNested(ls) == WrittenNestedFrom(ls, 1, 0, TRUE)

\* the number of nodes above n in the tree
RECURSIVE DepthOf(_, _)
DepthOf(heap, n) ==
    IF \E p \in 1..Len(heap) : n \in ChildrenOf(heap, p)
    THEN 1 + DepthOf(heap, CHOOSE p \in 1..Len(heap) : n \in ChildrenOf(heap, p))
    ELSE 0

TopLevel == {body[i] : i \in 1..Len(body)}

IsBadStatement(content) ==
    IF ~StartsWith(content, "=") THEN TRUE
    ELSE IF StartsWith(content, "=(") /\ Includes(content, ")=") THEN ToLowerCase(content) # "=(time)="
    ELSE \/ IndexOf(SliceFrom(content, 1), "=") = -1
         \/ ToLowerCase(Trim(Slice(content, 1, 1 + IndexOf(SliceFrom(content, 1), "="))))
                \notin ELEMENT_TYPES \cup DOC_PROPERTIES

IsBadLine(rawLine) ==
    /\ Trim(rawLine) \notin {"", FooterLiteral}
    /\ IsBadStatement(parseIndentation(rawLine).content)

BadLineKinds == {"UnknownStatement", "ExpectedEquals", "UnknownElementKind", "UnknownSpecialKind"}

\* the lines without the bad lines of the body: the body ends at the footer,
\* and begins after the header where one leads the text
RECURSIVE WithoutBadFrom(_, _)
WithoutBadFrom(ls, leading) ==
    IF ls = <<>> THEN <<>>
    ELSE IF Trim(Head(ls)) = FooterLiteral THEN ls
    ELSE IF Trim(Head(ls)) = "" THEN <<Head(ls)>> \o WithoutBadFrom(Tail(ls), leading)
    ELSE IF leading /\ Trim(Head(ls)) = HeaderLiteral THEN <<Head(ls)>> \o WithoutBadFrom(Tail(ls), FALSE)
    ELSE IF IsBadLine(Head(ls)) THEN WithoutBadFrom(Tail(ls), FALSE)
    ELSE <<Head(ls)>> \o WithoutBadFrom(Tail(ls), FALSE)

WithoutBad(ls) == WithoutBadFrom(ls, TRUE)

KindsOf(errs) == [i \in 1..Len(errs) |-> errs[i].kind]

RECURSIVE OtherKinds(_)
OtherKinds(errs) ==
    IF errs = <<>> THEN <<>>
    ELSE IF Head(errs).kind \in BadLineKinds THEN OtherKinds(Tail(errs))
    ELSE <<Head(errs).kind>> \o OtherKinds(Tail(errs))

AtBadLine == pc = "body" /\ currentLine < Len(lines) /\ IsBadLine(lines[currentLine + 1])

\* C30: the step at a bad body line appends one error with the line's 1-based
\* number and changes neither tree, metadata nor open containers; and the
\* finished parse has the tree, the metadata, the open containers and the
\* other errors of the parse of the text without its bad lines.
C30_BadLineOnlyReports ==
    /\ [][AtBadLine =>
            /\ Len(errors') = Len(errors) + 1
            /\ SubSeq(errors', 1, Len(errors)) = errors
            /\ errors'[Len(errors')].line = currentLine + 1
            /\ errors'[Len(errors')].kind \in BadLineKinds
            /\ nodes' = nodes /\ body' = body /\ metadata' = metadata
            /\ containerStack' = containerStack
            /\ currentLine' = currentLine + 1 /\ pc' = "body"]_vars
    /\ [](pc = "done" =>
            LET w == parse(JoinLines(WithoutBad(lines)))
            IN  /\ w.pc = "done"
                /\ WithoutLines(w.nodes) = WithoutLines(nodes)
                /\ w.body = body
                /\ w.metadata = metadata
                /\ w.containerStack = containerStack
                /\ KindsOf(w.errors) = OtherKinds(errors))

C30_Witness ==
    /\ pc = "done"
    /\ lines = <<"=divide=", "..oops", "..=text=Hi=", "=bad", "=divide=", "=(date)=", "=title=A=">>
    /\ errors = <<[kind |-> "MissingHeader", line |-> 1], [kind |-> "UnknownStatement", line |-> 2],
                  [kind |-> "ExpectedEquals", line |-> 4], [kind |-> "UnknownSpecialKind", line |-> 6],
                  [kind |-> "MissingFooter", line |-> 8]>>
    /\ nodes[1].children = <<2>>
    /\ body = <<1, 3>>
    /\ metadata.title = Some("A")

(***************************************************************************)
(* One dot, one level.                                                     *)
(***************************************************************************)
CurrentDots == CountDots(TrimStart(lines[currentLine + 1]))

\* C31: a statement behind at least one dot, read while a container is open,
\* becomes a child of a container and not of the document.
C31_EachDotIsALevel ==
    [][(pc = "body" /\ Len(nodes') = Len(nodes) + 1 /\ containerStack # <<>> /\ CurrentDots >= 1)
          => (Adopting # {} /\ body' = body)]_vars

(***************************************************************************)
(* Keywords in any letter case.                                            *)
(***************************************************************************)
\* C32: a bare container keyword in any letter case, read while a container
\* is open, closes the innermost container and adds no node.
C32_CloseInAnyCase ==
    [][(/\ pc = "body" /\ currentLine < Len(lines) /\ containerStack # <<>>
        /\ ToLowerCase(parseIndentation(lines[currentLine + 1]).content) = "=divide=")
          => (/\ containerStack' = SubSeq(containerStack, 1, Len(containerStack) - 1)
              /\ nodes' = nodes)]_vars

(***************************************************************************)
(* Document properties.                                                    *)
(***************************************************************************)
CurrentContent == parseIndentation(lines[currentLine + 1]).content

AtProperty(name) ==
    /\ pc = "body" /\ currentLine < Len(lines)
    /\ StartsWith(ToLowerCase(CurrentContent), "=" \o name \o "=")

\* C33: a language statement stores its value in lower case and a font-size
\* statement stores a number, each replacing what was stored before, and
\* neither adds a node.
C33_PropertiesCoerced ==
    [][/\ AtProperty("language") =>
            /\ metadata'.language = Some(ToLowerCase(ValueOf(SliceFrom(CurrentContent, Len("=language=")))))
            /\ nodes' = nodes /\ body' = body
       /\ AtProperty("font-size") =>
            /\ metadata'.fontSize.some /\ ~metadata'.fontSize.nan
            /\ metadata'.fontSize.n = StrToNumber(ValueOf(SliceFrom(CurrentContent, Len("=font-size=")))).n
            /\ nodes' = nodes /\ body' = body]_vars

(***************************************************************************)
(* The exhausted stream and the array in the caller's hands.               *)
(***************************************************************************)
\* the number of nextToken() calls among the first i calls that follow the
\* last tokenize() call among them
RECURSIVE TakenSince(_, _)
TakenSince(log, i) ==
    IF i = 0 \/ log[i].call = "tokenize" THEN 0
    ELSE TakenSince(log, i - 1) + (IF log[i].call = "nextToken" THEN 1 ELSE 0)

\* before call i every token, the EOF token included, was taken
ExhaustedBefore(log, i) == TakenSince(log, i - 1) >= Len(tokenize(source).tokens)

\* C34: when every token was taken, nextToken() returns null and isAtEnd()
\* returns true.
C34_StaysExhausted ==
    lpc = "caller" =>
        \A i \in 1..Len(returned) :
            ExhaustedBefore(returned, i) =>
                /\ returned[i].call = "nextToken" => returned[i].value = NoToken
                /\ returned[i].call = "isAtEnd" => returned[i].value = <<TRUE>>

\* C35: the array a caller got from tokenize() holds what it held when it
\* was returned.
C35_HandedArrayKept ==
    handed.held => handed.now = handed.original

(***************************************************************************)
(* Number tokens.                                                          *)
(***************************************************************************)
\* C37: the text of every NUMBER token is made of decimal digits only.
C37_NumberIsDecimal ==
    \A i \in 1..Len(tokens) :
        tokens[i].type = "NUMBER" => AllChars(tokens[i].value, IsDecimal)

(***************************************************************************)
(* String tokens.                                                          *)
(***************************************************************************)
\* C40: the text of every STRING token is not empty, neither starts nor
\* ends with white space, and holds neither the marker character nor a line
\* break.
C40_StringWellFormed ==
    \A i \in 1..Len(tokens) :
        tokens[i].type = "STRING" =>
            /\ tokens[i].value # ""
            /\ Trim(tokens[i].value) = tokens[i].value
            /\ ~Includes(tokens[i].value, "=")
            /\ ~Includes(tokens[i].value, "\n")

\* C40 witness: a value followed by a blank and a line break became the
\* STRING token of its text alone
C40_Witness ==
    /\ lpc = "done"
    /\ source = "=t=a \n"
    /\ [i \in 1..Len(tokens) |-> tokens[i].type] = <<"EQUALS", "IDENTIFIER", "EQUALS", "STRING", "NEWLINE", "EOF">>
    /\ tokens[4].value = "a"

(***************************************************************************)
(* The lines the errors name.                                              *)
(***************************************************************************)
\* C36: every error recorded names a line of the source.
C36_ErrorLineExists ==
    \A i \in 1..Len(errors) : errors[i].line \in 1..Len(lines)

(***************************************************************************)
(* Starter projects.                                                       *)
(***************************************************************************)
IsStarter(id) == StartsWith(id, "starter-")

Ids(list) == {list[i].id : i \in 1..Len(list)}

\* C38: no call removes a starter project from the store, and a
\* deleteProject call naming a starter project changes neither the list nor
\* the stored item.
C38_StartersStay ==
    [][/\ \A id \in Ids(projects) : IsStarter(id) => id \in Ids(projects')
       /\ (storeCalls' = storeCalls + 1 /\ lastCall'.op = "deleteProject" /\ IsStarter(lastCall'.id))
            => (projects' = projects /\ localStorage' = localStorage)]_vars

C38_Witness ==
    /\ storeCalls = 2
    /\ lastCall = [op |-> "deleteProject", id |-> "starter-hello-world"]
    /\ Ids(projects) = {"starter-hello-world", "starter-my-first-page", "starter-colorful-page", "project-1"}
    /\ localStorage = ItemOf(projects)

(***************************************************************************)
(* The editor and the code.                                                *)
(***************************************************************************)
\* C39: once the effect of a change has run, the editor's document is the
\* code.
C39_EditorFollowsCode ==
    (editorDoc # NoEditor /\ ~effectPending) => editorDoc = code

====
